---- MODULE Spec2Model ----
(***************************************************************************)
(* PromAI: the task registry (pkg/taskmanager) and the request handlers   *)
(* of main.go that drive it.                                               *)
(*                                                                         *)
(* The source's string literals are Chinese; the model writes them in      *)
(* ASCII, one model string per source string:                              *)
(*   "收集系统资源数据" -> "collect resources"                              *)
(*   "收集服务状态"     -> "collect service status"                         *)
(*   "分析告警信息"     -> "analyze alerts"                                 *)
(*   "生成巡检报告"     -> "generate report"                                *)
(*   "巡检任务已创建"   -> "task created"                                   *)
(*   " 完成"            -> " done"                                          *)
(*   " 失败: "          -> " failed: "                                      *)
(*   "巡检任务完成！"   -> "task completed"                                 *)
(*   "巡检任务失败: "   -> "task failed: "                                  *)
(*   "任务已取消"       -> "cancelled"                                      *)
(*   "巡检任务已取消"   -> "task cancelled"                                 *)
(*   "手动巡检"         -> "manual inspection"                              *)
(*   "系统巡检任务"     -> "system inspection task"                         *)
(***************************************************************************)
EXTENDS Integers, Sequences, FiniteSets, TLC

VARIABLES
    tasks,      \* TaskManager.tasks: task id -> InspectionTask
    nextID,     \* TaskManager.nextID
    clock,      \* time.Now(), in whole seconds
    reqs,       \* one record per report request (makeReportHandler's locals)
    lastOp,     \* the registry call or handler step taken last (history)
    mu,         \* TaskManager.mu: the registry call that holds the write lock
    reading,    \* the task ids whose task a handler is reading, the lock released
    probe,      \* one call of a pure function: its inputs and its result
    col,        \* one CollectMetrics call: its collector, position and ReportData
    applied     \* task id -> the mutator calls made on that task since CreateTask
                \* put it in the registry (history)

vars == <<tasks, nextID, clock, reqs, lastOp, mu, reading, probe, col, applied>>

\* What the registry and handler steps leave alone.
aside == <<mu, reading, probe, col>>

----------------------------------------------------------------------------
(* Bounds of the model *)

\* Tick stops at this clock value.
MaxClock == 2
\* Registry calls stop once the logs of all tasks together hold this many entries.
MaxLogTotal == 3
\* CancelTask requests stop once a task's log holds this many cancellation entries.
MaxCancels == 1
\* CreateTask calls stop once the registry has made this many.
MaxTasks == 2
\* The tasks handler stops creating tasks once the registry holds this many.
MaxPosts == 1

----------------------------------------------------------------------------
(* Types of pkg/taskmanager *)

StatusPending == "pending"
StatusRunning == "running"
StatusCompleted == "completed"
StatusFailed == "failed"

TaskStatus == {StatusPending, StatusRunning, StatusCompleted, StatusFailed}

\* The zero time.Time (a field never stamped); the clock starts after it.
ZeroTime == 0

StepCollectResources == "collect resources"
StepCollectServices == "collect service status"
StepAnalyzeAlerts == "analyze alerts"
StepGenerateReport == "generate report"

TaskStep(name, description) ==
    [name |-> name, status |-> StatusPending, startTime |-> ZeroTime,
     endTime |-> ZeroTime, error |-> "", description |-> description]

TaskLog(now, message, type) == [time |-> now, message |-> message, type |-> type]

\* The four steps CreateTask gives every task.
InitialSteps ==
    << TaskStep(StepCollectResources, "collect CPU, memory, disk metrics"),
       TaskStep(StepCollectServices, "check the running state of services"),
       TaskStep(StepAnalyzeAlerts, "analyze current alerts"),
       TaskStep(StepGenerateReport, "generate the HTML report") >>

----------------------------------------------------------------------------
(* Task ids *)

\* Go's string(int) conversion: the UTF-8 encoding of the code point, and of
\* U+FFFD for a value that is no valid code point (a surrogate half, or a
\* value above U+10FFFF).  The string is represented by its code point.
SurrogateMin == 55296
SurrogateMax == 57343
MaxRune == 1114111
RuneError == 65533

RuneString(n) ==
    IF n < 0 \/ n > MaxRune \/ (n >= SurrogateMin /\ n <= SurrogateMax)
    THEN RuneError
    ELSE n

\* time.Now().Format("20060102_150405"): the time cut to the second.
FormatSecond(now) == now

\* "task_" + <second> + "_" + string(nextID)
TaskID(now, n) == <<"task", FormatSecond(now), RuneString(n)>>

\* An id no CreateTask call returns (the clock never reads ZeroTime).
GhostID == <<"task", ZeroTime, 0>>

----------------------------------------------------------------------------
(* Registry operations: each takes the task mapping and returns the new one *)

\* The first of the step indexes in idx, 0 if there is none
\* (the "for i, step := range task.Steps { if ... { ...; break } }" loops).
FirstStep(idx) ==
    IF idx = {} THEN 0
    ELSE CHOOSE i \in idx : \A j \in idx : i <= j

\* NewTask with the last step left out of the list.
NewTaskMissingStep(id, now, name, datasource) ==
    [id |-> id, name |-> name, datasource |-> datasource,
     status |-> StatusPending, progress |-> 0,
     startTime |-> now, endTime |-> ZeroTime, error |-> "",
     steps |-> SubSeq(InitialSteps, 1, 3),
     logs |-> << TaskLog(now, "task created", "info") >>,
     reportPath |-> "",
     cancelled |-> FALSE]

NewTask(id, now, name, datasource) ==
    [id |-> id, name |-> name, datasource |-> datasource,
     status |-> StatusPending, progress |-> 0,
     startTime |-> now, endTime |-> ZeroTime, error |-> "",
     steps |-> InitialSteps,
     logs |-> << TaskLog(now, "task created", "info") >>,
     reportPath |-> "",
     cancelled |-> FALSE]

\* tm.tasks[id] = task
MapPut(ts, id, task) ==
    [k \in (DOMAIN ts) \cup {id} |-> IF k = id THEN task ELSE ts[k]]

\* n is the counter value after tm.nextID++
CreateTask(ts, now, n, name, datasource) ==
    MapPut(ts, TaskID(now, n), NewTask(TaskID(now, n), now, name, datasource))

GetTask(ts, id) ==
    IF id \in DOMAIN ts THEN [task |-> ts[id], exists |-> TRUE]
    ELSE [task |-> <<>>, exists |-> FALSE]

\* UpdateTaskProgress writing through a missing map entry: the id gets a task.
UpdateTaskProgressUpsert(ts, now, id, progress, stepName) ==
    MapPut(ts, id,
           [(IF id \in DOMAIN ts THEN ts[id] ELSE NewTask(id, now, "", ""))
               EXCEPT !.progress = progress])

\* UpdateTaskProgress without the "step.Status == StatusPending" test.
UpdateTaskProgressAnyStatus(ts, now, id, progress, stepName) ==
    IF id \in DOMAIN ts
    THEN LET task == ts[id]
             i == FirstStep({k \in 1..Len(task.steps) : task.steps[k].name = stepName})
             steps == IF i = 0 THEN task.steps
                      ELSE [task.steps EXCEPT ![i].status = StatusRunning,
                                              ![i].startTime = now]
         IN [ts EXCEPT ![id] =
                [task EXCEPT !.progress = progress,
                             !.steps = steps,
                             !.logs = Append(task.logs, TaskLog(now, stepName, "info"))]]
    ELSE ts

UpdateTaskProgress(ts, now, id, progress, stepName) ==
    IF id \in DOMAIN ts
    THEN LET task == ts[id]
             i == FirstStep({k \in 1..Len(task.steps) :
                                /\ task.steps[k].name = stepName
                                /\ task.steps[k].status = StatusPending})
             steps == IF i = 0 THEN task.steps
                      ELSE [task.steps EXCEPT ![i].status = StatusRunning,
                                              ![i].startTime = now]
         IN [ts EXCEPT ![id] =
                [task EXCEPT !.progress = progress,
                             !.steps = steps,
                             !.logs = Append(task.logs, TaskLog(now, stepName, "info"))]]
    ELSE ts

\* CompleteStep that completes a step only if it is running.
CompleteStepRunningOnly(ts, now, id, stepName) ==
    IF id \in DOMAIN ts
    THEN LET task == ts[id]
             i == FirstStep({k \in 1..Len(task.steps) :
                                /\ task.steps[k].name = stepName
                                /\ task.steps[k].status = StatusRunning})
             steps == IF i = 0 THEN task.steps
                      ELSE [task.steps EXCEPT ![i].status = StatusCompleted,
                                              ![i].endTime = now]
         IN [ts EXCEPT ![id] =
                [task EXCEPT !.steps = steps,
                             !.logs = Append(task.logs,
                                        TaskLog(now, stepName \o " done", "success"))]]
    ELSE ts

CompleteStep(ts, now, id, stepName) ==
    IF id \in DOMAIN ts
    THEN LET task == ts[id]
             i == FirstStep({k \in 1..Len(task.steps) : task.steps[k].name = stepName})
             steps == IF i = 0 THEN task.steps
                      ELSE [task.steps EXCEPT ![i].status = StatusCompleted,
                                              ![i].endTime = now]
         IN [ts EXCEPT ![id] =
                [task EXCEPT !.steps = steps,
                             !.logs = Append(task.logs,
                                        TaskLog(now, stepName \o " done", "success"))]]
    ELSE ts

\* FailStep that writes its log entry only when it found the step.
FailStepLogsOnMatch(ts, now, id, stepName, errorMsg) ==
    IF id \in DOMAIN ts
    THEN LET task == ts[id]
             i == FirstStep({k \in 1..Len(task.steps) : task.steps[k].name = stepName})
             steps == IF i = 0 THEN task.steps
                      ELSE [task.steps EXCEPT ![i].status = StatusFailed,
                                              ![i].endTime = now,
                                              ![i].error = errorMsg]
         IN [ts EXCEPT ![id] =
                [task EXCEPT !.steps = steps,
                             !.logs = IF i = 0 THEN task.logs
                                      ELSE Append(task.logs,
                                             TaskLog(now, stepName \o " failed: " \o errorMsg,
                                                     "error"))]]
    ELSE ts

FailStep(ts, now, id, stepName, errorMsg) ==
    IF id \in DOMAIN ts
    THEN LET task == ts[id]
             i == FirstStep({k \in 1..Len(task.steps) : task.steps[k].name = stepName})
             steps == IF i = 0 THEN task.steps
                      ELSE [task.steps EXCEPT ![i].status = StatusFailed,
                                              ![i].endTime = now,
                                              ![i].error = errorMsg]
         IN [ts EXCEPT ![id] =
                [task EXCEPT !.steps = steps,
                             !.logs = Append(task.logs,
                                        TaskLog(now, stepName \o " failed: " \o errorMsg,
                                                "error"))]]
    ELSE ts

\* CompleteTask that also clears the error message of the task.
CompleteTaskClearsError(ts, now, id, reportPath) ==
    IF id \in DOMAIN ts
    THEN [ts EXCEPT ![id] =
            [ts[id] EXCEPT !.status = StatusCompleted,
                           !.progress = 100,
                           !.endTime = now,
                           !.error = "",
                           !.reportPath = reportPath,
                           !.logs = Append(ts[id].logs,
                                      TaskLog(now, "task completed", "success"))]]
    ELSE ts

CompleteTask(ts, now, id, reportPath) ==
    IF id \in DOMAIN ts
    THEN [ts EXCEPT ![id] =
            [ts[id] EXCEPT !.status = StatusCompleted,
                           !.progress = 100,
                           !.endTime = now,
                           !.reportPath = reportPath,
                           !.logs = Append(ts[id].logs,
                                      TaskLog(now, "task completed", "success"))]]
    ELSE ts

\* FailTask that also takes the progress back to 0.
FailTaskResetsProgress(ts, now, id, errorMsg) ==
    IF id \in DOMAIN ts
    THEN [ts EXCEPT ![id] =
            [ts[id] EXCEPT !.status = StatusFailed,
                           !.progress = 0,
                           !.error = errorMsg,
                           !.endTime = now,
                           !.logs = Append(ts[id].logs,
                                      TaskLog(now, "task failed: " \o errorMsg, "error"))]]
    ELSE ts

FailTask(ts, now, id, errorMsg) ==
    IF id \in DOMAIN ts
    THEN [ts EXCEPT ![id] =
            [ts[id] EXCEPT !.status = StatusFailed,
                           !.error = errorMsg,
                           !.endTime = now,
                           !.logs = Append(ts[id].logs,
                                      TaskLog(now, "task failed: " \o errorMsg, "error"))]]
    ELSE ts

\* CancelTask that, given the id of a task, cancels every task of the registry.
CancelTaskAll(ts, now, id) ==
    IF id \in DOMAIN ts
    THEN [k \in DOMAIN ts |->
            [ts[k] EXCEPT !.cancelled = TRUE,
                          !.status = StatusFailed,
                          !.error = "cancelled",
                          !.endTime = now,
                          !.logs = IF k = id
                                   THEN Append(ts[k].logs,
                                               TaskLog(now, "task cancelled", "error"))
                                   ELSE ts[k].logs]]
    ELSE ts

\* CancelTask that forgets to call task.cancel().
CancelTaskNoSignal(ts, now, id) ==
    IF id \in DOMAIN ts
    THEN [ts EXCEPT ![id] =
            [ts[id] EXCEPT !.status = StatusFailed,
                           !.error = "cancelled",
                           !.endTime = now,
                           !.logs = Append(ts[id].logs,
                                      TaskLog(now, "task cancelled", "error"))]]
    ELSE ts

\* CancelTask that returns early for a task that has finished.
CancelTaskSkipFinished(ts, now, id) ==
    IF id \in DOMAIN ts /\ ts[id].status \notin {StatusCompleted, StatusFailed}
    THEN [ts EXCEPT ![id] =
            [ts[id] EXCEPT !.cancelled = TRUE,
                           !.status = StatusFailed,
                           !.error = "cancelled",
                           !.endTime = now,
                           !.logs = Append(ts[id].logs,
                                      TaskLog(now, "task cancelled", "error"))]]
    ELSE ts

CancelTask(ts, now, id) ==
    IF id \in DOMAIN ts
    THEN [ts EXCEPT ![id] =
            [ts[id] EXCEPT !.cancelled = TRUE,
                           !.status = StatusFailed,
                           !.error = "cancelled",
                           !.endTime = now,
                           !.logs = Append(ts[id].logs,
                                      TaskLog(now, "task cancelled", "error"))]]
    ELSE ts

\* 24*time.Hour, in seconds.
Day == 86400

\* CleanupOldTasks removing a task from 24 hours on.
CleanupOldTasksFromDay(ts, now) ==
    [id \in {k \in DOMAIN ts : ~(now - ts[k].startTime >= Day)} |-> ts[id]]

\* now.Sub(task.StartTime) > 24*time.Hour deletes the entry.
CleanupOldTasks(ts, now) ==
    [id \in {k \in DOMAIN ts : ~(now - ts[k].startTime > Day)} |-> ts[id]]

----------------------------------------------------------------------------
(* Inputs *)

\* Counter values the registry starts from.  NewTaskManager leaves the counter
\* at 0; an empty registry whose counter is k is what k CreateTask calls
\* followed by CleanupOldTasks a day later leave behind.
StartNextIDs == {0, SurrogateMin - 1}

TaskNames == {"system inspection task"}
DatasourceNames == {"", "prod"}
ProgressInputs == {25, 90}
StepNameInputs == {StepCollectResources, "no such step"}
ErrorMsgs == {"boom"}
ReportPaths == {"reports/a.html", "reports/b.html"}

\* Ids a caller may pass: every id in the registry, and one that is not.
IdInputs == (DOMAIN tasks) \cup {GhostID}

Requests == {"r1", "r2"}

----------------------------------------------------------------------------
(* History and helpers *)

RECURSIVE SumLogs(_, _)
SumLogs(ts, ids) ==
    IF ids = {} THEN 0
    ELSE LET id == CHOOSE x \in ids : TRUE
         IN Len(ts[id].logs) + SumLogs(ts, ids \ {id})

\* The number of log entries held by all tasks together.
LogTotal(ts) == SumLogs(ts, DOMAIN ts)

\* The number of CreateTask calls made since the registry started.
Created == IF nextID >= SurrogateMin - 1 THEN nextID - (SurrogateMin - 1) ELSE nextID

StatusOf(ts, id) == IF id \in DOMAIN ts THEN ts[id].status ELSE "none"

\* op: the call; id: its task id; existed: whether the id was in the registry
\* before the call; prev: the task's status before the call; by: the request
\* that made the call ("" for a call from outside a report request); args: the
\* arguments after the id, kept for the calls made on the registry directly.
Op(op, id, by) ==
    [op |-> op, id |-> id, existed |-> id \in DOMAIN tasks,
     prev |-> StatusOf(tasks, id), by |-> by, args |-> <<>>]

OpWith(op, id, args) == [Op(op, id, "") EXCEPT !.args = args]

NoOp == [op |-> "none", id |-> GhostID, existed |-> FALSE, prev |-> "none", by |-> "",
         args |-> <<>>]

IdleRequest ==
    [pc |-> "start", datasource |-> "", prometheusURL |-> "", taskID |-> GhostID,
     created |-> FALSE, fault |-> "", http |-> 0,
     runPath |-> "", reportPath |-> "", writes |-> 0,
     collector |-> [client |-> "", prometheusURL |-> ""],
     queried |-> {}, dataDatasource |-> "", handed |-> {}]

\* The calls counted for the task that CreateTask has just put under id.
CountCreate(id) ==
    [k \in (DOMAIN applied) \cup {id} |-> IF k = id THEN 0 ELSE applied[k]]

\* The calls counted after one more call with id: it counts for the task under
\* id, if there is one.
CountCall(id) ==
    IF id \in DOMAIN applied THEN [applied EXCEPT ![id] = @ + 1] ELSE applied

\* The calls counted for the tasks CleanupOldTasks has left in the registry ts.
CountCleanup(ts) == [k \in DOMAIN ts |-> applied[k]]

\* Nobody holds the lock.
Unlocked == [op |-> "", id |-> GhostID, logged |-> FALSE]

NoProbe == [fn |-> "none"]
\* config.PrometheusURL
ConfigPrometheusURL == "http://default:9090"

\* prometheus.NewClient(url): the client is bound to the backend at url.
NewClient(url) == url

\* The collector made by main for the configured backend, which the handler
\* uses for a request without a datasource parameter.
GlobalCollector == [client |-> NewClient(ConfigPrometheusURL),
                    prometheusURL |-> ConfigPrometheusURL]

\* No CollectMetrics call has been made; the collector is as main made it.
NoCollect == [pc |-> "none", collector |-> GlobalCollector, updating |-> ""]

\* The variables of the lock, the pure functions and the collector at rest.
AsideIdle ==
    /\ mu = Unlocked
    /\ reading = {}
    /\ probe = NoProbe
    /\ col = NoCollect

----------------------------------------------------------------------------
(* The registry called directly *)

Tick ==
    /\ clock < MaxClock
    /\ clock' = clock + 1
    /\ lastOp' = [NoOp EXCEPT !.op = "Tick"]
    /\ UNCHANGED <<tasks, applied, nextID, reqs, aside>>

CallCreateTask ==
    /\ LogTotal(tasks) < MaxLogTotal
    /\ Created < MaxTasks
    /\ \E name \in TaskNames, ds \in DatasourceNames :
        /\ nextID' = nextID + 1
        /\ applied' = CountCreate(TaskID(clock, nextID + 1))
        /\ tasks' = CreateTask(tasks, clock, nextID + 1, name, ds)
        /\ lastOp' = Op("CreateTask", TaskID(clock, nextID + 1), "")
    /\ UNCHANGED <<clock, reqs, aside>>

CallUpdateTaskProgress ==
    /\ LogTotal(tasks) < MaxLogTotal
    /\ \E id \in IdInputs, p \in ProgressInputs, step \in StepNameInputs :
        /\ applied' = CountCall(id)
        /\ tasks' = UpdateTaskProgress(tasks, clock, id, p, step)
        /\ lastOp' = OpWith("UpdateTaskProgress", id, <<p, step>>)
    /\ UNCHANGED <<nextID, clock, reqs, aside>>

CallCompleteStep ==
    /\ LogTotal(tasks) < MaxLogTotal
    /\ \E id \in IdInputs, step \in StepNameInputs :
        /\ applied' = CountCall(id)
        /\ tasks' = CompleteStep(tasks, clock, id, step)
        /\ lastOp' = OpWith("CompleteStep", id, <<step>>)
    /\ UNCHANGED <<nextID, clock, reqs, aside>>

CallFailStep ==
    /\ LogTotal(tasks) < MaxLogTotal
    /\ \E id \in IdInputs, step \in StepNameInputs, msg \in ErrorMsgs :
        /\ applied' = CountCall(id)
        /\ tasks' = FailStep(tasks, clock, id, step, msg)
        /\ lastOp' = OpWith("FailStep", id, <<step, msg>>)
    /\ UNCHANGED <<nextID, clock, reqs, aside>>

CallCompleteTask ==
    /\ LogTotal(tasks) < MaxLogTotal
    /\ \E id \in IdInputs, path \in ReportPaths :
        /\ applied' = CountCall(id)
        /\ tasks' = CompleteTask(tasks, clock, id, path)
        /\ lastOp' = OpWith("CompleteTask", id, <<path>>)
    /\ UNCHANGED <<nextID, clock, reqs, aside>>

CallFailTask ==
    /\ LogTotal(tasks) < MaxLogTotal
    /\ \E id \in IdInputs, msg \in ErrorMsgs :
        /\ applied' = CountCall(id)
        /\ tasks' = FailTask(tasks, clock, id, msg)
        /\ lastOp' = OpWith("FailTask", id, <<msg>>)
    /\ UNCHANGED <<nextID, clock, reqs, aside>>

CallCancelTask ==
    /\ LogTotal(tasks) < MaxLogTotal
    /\ \E id \in IdInputs :
        /\ applied' = CountCall(id)
        /\ tasks' = CancelTask(tasks, clock, id)
        /\ lastOp' = Op("CancelTask", id, "")
    /\ UNCHANGED <<nextID, clock, reqs, aside>>

InitRegistry ==
    /\ tasks = <<>>
    /\ applied = <<>>
    /\ nextID \in StartNextIDs
    /\ clock = 1
    /\ reqs = [r \in Requests |-> IdleRequest]
    /\ lastOp = NoOp
    /\ AsideIdle

NextRegistry ==
    \/ Tick
    \/ CallCreateTask
    \/ CallUpdateTaskProgress
    \/ CallCompleteStep
    \/ CallFailStep
    \/ CallCompleteTask
    \/ CallFailTask
    \/ CallCancelTask

\* The registry under any sequence of calls.
SpecRegistry == InitRegistry /\ [][NextRegistry]_vars

----------------------------------------------------------------------------
(* Configuration and collaborators of the report handler *)

\* config.DataSources (name -> URL).
ConfigDataSources == [prod |-> "http://a:9090"]

\* Values of the request's datasource parameter: absent, a configured name,
\* an unknown name, a URL of either scheme.
DatasourceParams == {"", "prod", "nosuch", "http://b:9090", "https://c:9090"}

\* strings.HasPrefix(s, prefix)
HasPrefix(s, prefix) ==
    /\ Len(s) >= Len(prefix)
    /\ SubSeq(s, 1, Len(prefix)) = prefix

\* strings.HasPrefix(datasource, "http://") || strings.HasPrefix(datasource, "https://")
IsURLFormat(ds) == HasPrefix(ds, "http://") \/ HasPrefix(ds, "https://")

\* The prometheusURL the handler settles on; "" when the name is not configured.
ResolveDatasource(ds) ==
    IF ds # ""
    THEN IF IsURLFormat(ds) THEN ds
         ELSE IF ds \in DOMAIN ConfigDataSources THEN ConfigDataSources[ds]
         ELSE ""
    ELSE ConfigPrometheusURL

\* The taskid parameter left out.
NoTaskID == <<>>
TaskIDParams == IdInputs \cup {NoTaskID}

\* report.GenerateReport returns a file path or an error.
WriterError == "error"
WriterResults == ReportPaths \cup {WriterError}

CancelCount(ts, id) ==
    IF id \in DOMAIN ts
    THEN Cardinality({i \in 1..Len(ts[id].logs) : ts[id].logs[i].message = "task cancelled"})
    ELSE 0

NewCollectorShared(client, prometheusURL) == GlobalCollector

NewCollectorWithURL(client, prometheusURL) ==
    [client |-> client, prometheusURL |-> prometheusURL]

\* The request moves to pc.
Goto(r, pc) == [reqs EXCEPT ![r].pc = pc]

----------------------------------------------------------------------------
(* makeReportHandler: one request r, one action per step between two        *)
(* registry calls                                                           *)

\* The datasource parameter (one of DS) and the taskid parameter are read; a
\* task is created when no taskid is given.
ReportStartWith(r, DS) ==
    /\ reqs[r].pc = "start"
    /\ \E ds \in DS, tid \in TaskIDParams :
        LET url == ResolveDatasource(ds) IN
        IF url = ""
        THEN /\ reqs' = [reqs EXCEPT ![r].pc = "done", ![r].datasource = ds,
                                     ![r].http = 400]
             /\ lastOp' = [NoOp EXCEPT !.op = "ReportStart", !.by = r]
             /\ UNCHANGED <<tasks, applied, nextID>>
        ELSE IF tid = NoTaskID
        THEN /\ nextID' = nextID + 1
             /\ applied' = CountCreate(TaskID(clock, nextID + 1))
             /\ tasks' = CreateTask(tasks, clock, nextID + 1, "manual inspection", url)
             /\ reqs' = [reqs EXCEPT ![r].pc = "client", ![r].datasource = ds,
                                     ![r].prometheusURL = url,
                                     ![r].taskID = TaskID(clock, nextID + 1),
                                     ![r].created = TRUE]
             /\ lastOp' = Op("CreateTask", TaskID(clock, nextID + 1), r)
        ELSE /\ reqs' = [reqs EXCEPT ![r].pc = "client", ![r].datasource = ds,
                                     ![r].prometheusURL = url,
                                     ![r].taskID = tid]
             /\ lastOp' = [NoOp EXCEPT !.op = "ReportStart", !.by = r]
             /\ UNCHANGED <<tasks, applied, nextID>>
    /\ UNCHANGED <<clock, aside>>

\* prometheus.NewClient for a request that names a datasource; it may fail.
ReportNewClient(r) ==
    /\ reqs[r].pc = "client"
    /\ IF reqs[r].datasource # ""
       THEN \E ok \in BOOLEAN :
              reqs' = IF ok
                      THEN [reqs EXCEPT
                              ![r].pc = "update25",
                              ![r].collector =
                                  NewCollectorWithURL(NewClient(reqs[r].prometheusURL),
                                                      reqs[r].prometheusURL)]
                      ELSE [reqs EXCEPT ![r].pc = "done", ![r].http = 500,
                                        ![r].fault = "client"]
       ELSE reqs' = [reqs EXCEPT ![r].pc = "update25",
                                 ![r].collector = GlobalCollector]
    /\ lastOp' = [NoOp EXCEPT !.op = "NewClient", !.by = r]
    /\ UNCHANGED <<tasks, applied, nextID, clock, aside>>

\* One UpdateTaskProgress call of executeInspectionWithProgress.
ExecUpdate(r, at, progress, stepName, next) ==
    /\ reqs[r].pc = at
    /\ applied' = CountCall(reqs[r].taskID)
    /\ tasks' = UpdateTaskProgress(tasks, clock, reqs[r].taskID, progress, stepName)
    /\ reqs' = Goto(r, next)
    /\ lastOp' = Op("UpdateTaskProgress", reqs[r].taskID, r)
    /\ UNCHANGED <<nextID, clock, aside>>

\* One CompleteStep call of executeInspectionWithProgress.
ExecCompleteStep(r, at, stepName, next) ==
    /\ reqs[r].pc = at
    /\ applied' = CountCall(reqs[r].taskID)
    /\ tasks' = CompleteStep(tasks, clock, reqs[r].taskID, stepName)
    /\ reqs' = Goto(r, next)
    /\ lastOp' = Op("CompleteStep", reqs[r].taskID, r)
    /\ UNCHANGED <<nextID, clock, aside>>

ExecUpdate25(r) == ExecUpdate(r, "update25", 25, StepCollectResources, "collect")

\* collector.CollectMetrics(): the queries go to the collector's client and
\* the data is stamped with the collector's URL; every return of it returns a
\* nil error, so the FailStep branch after it is never taken.
ExecCollect(r) ==
    /\ reqs[r].pc = "collect"
    /\ reqs' = [reqs EXCEPT ![r].pc = "complete1",
                            ![r].queried = @ \cup {reqs[r].collector.client},
                            ![r].dataDatasource = reqs[r].collector.prometheusURL]
    /\ lastOp' = [NoOp EXCEPT !.op = "CollectMetrics", !.by = r]
    /\ UNCHANGED <<tasks, applied, nextID, clock, aside>>

ExecComplete1(r) == ExecCompleteStep(r, "complete1", StepCollectResources, "update50")

\* UpdateTaskProgress(taskID, 50, ...), then data.Datasource = prometheusURL.
ExecUpdate50(r) ==
    /\ reqs[r].pc = "update50"
    /\ applied' = CountCall(reqs[r].taskID)
    /\ tasks' = UpdateTaskProgress(tasks, clock, reqs[r].taskID, 50, StepCollectServices)
    /\ reqs' = [reqs EXCEPT ![r].pc = "complete2",
                            ![r].dataDatasource = reqs[r].prometheusURL]
    /\ lastOp' = Op("UpdateTaskProgress", reqs[r].taskID, r)
    /\ UNCHANGED <<nextID, clock, aside>>

ExecComplete2(r) == ExecCompleteStep(r, "complete2", StepCollectServices, "update75")
ExecUpdate75(r) == ExecUpdate(r, "update75", 75, StepAnalyzeAlerts, "complete3")
ExecComplete3(r) == ExecCompleteStep(r, "complete3", StepAnalyzeAlerts, "update90")
ExecUpdate90(r) == ExecUpdate(r, "update90", 90, StepGenerateReport, "generate")

\* report.GenerateReport(*data) inside executeInspectionWithProgress.
ExecGenerateReport(r) ==
    /\ reqs[r].pc = "generate"
    /\ \E res \in WriterResults :
        reqs' = IF res = WriterError
                THEN [reqs EXCEPT ![r].pc = "failstep", ![r].fault = "writer",
                                  ![r].writes = @ + 1,
                                  ![r].handed = @ \cup {reqs[r].dataDatasource}]
                ELSE [reqs EXCEPT ![r].pc = "complete", ![r].runPath = res,
                                  ![r].writes = @ + 1,
                                  ![r].handed = @ \cup {reqs[r].dataDatasource}]
    /\ lastOp' = [NoOp EXCEPT !.op = "GenerateReport", !.by = r]
    /\ UNCHANGED <<tasks, applied, nextID, clock, aside>>

\* The report writer failed: FailStep, the error goes back to the handler,
\* which answers 500.
ExecFailStep(r) ==
    /\ reqs[r].pc = "failstep"
    /\ \E msg \in ErrorMsgs :
        tasks' = FailStep(tasks, clock, reqs[r].taskID, StepGenerateReport, msg)
    /\ applied' = CountCall(reqs[r].taskID)
    /\ reqs' = [reqs EXCEPT ![r].pc = "done", ![r].http = 500]
    /\ lastOp' = Op("FailStep", reqs[r].taskID, r)
    /\ UNCHANGED <<nextID, clock, aside>>

ExecCompleteTask(r) ==
    /\ reqs[r].pc = "complete"
    /\ applied' = CountCall(reqs[r].taskID)
    /\ tasks' = CompleteTask(tasks, clock, reqs[r].taskID, reqs[r].runPath)
    /\ reqs' = Goto(r, "report")
    /\ lastOp' = Op("CompleteTask", reqs[r].taskID, r)
    /\ UNCHANGED <<nextID, clock, aside>>

\* Back in the handler: report.GenerateReport(*data) again, then the
\* notifications and the redirect to the report it returned.
ReportFinish(r) ==
    /\ reqs[r].pc = "report"
    /\ \E res \in WriterResults :
        reqs' = IF res = WriterError
                THEN [reqs EXCEPT ![r].pc = "done", ![r].fault = "writer",
                                  ![r].http = 500, ![r].writes = @ + 1,
                                  ![r].handed = @ \cup {reqs[r].dataDatasource}]
                ELSE [reqs EXCEPT ![r].pc = "done", ![r].reportPath = res,
                                  ![r].http = 303, ![r].writes = @ + 1,
                                  ![r].handed = @ \cup {reqs[r].dataDatasource}]
    /\ lastOp' = [NoOp EXCEPT !.op = "ReportFinish", !.by = r]
    /\ UNCHANGED <<tasks, applied, nextID, clock, aside>>

\* tasksHandler, POST: an empty name becomes the default name.
TasksPost ==
    /\ Cardinality(DOMAIN tasks) < MaxPosts
    /\ \E name \in TaskNames \cup {""}, ds \in DatasourceNames :
        /\ nextID' = nextID + 1
        /\ applied' = CountCreate(TaskID(clock, nextID + 1))
        /\ tasks' = CreateTask(tasks, clock, nextID + 1,
                               IF name = "" THEN "system inspection task" ELSE name, ds)
        /\ lastOp' = Op("CreateTask", TaskID(clock, nextID + 1), "")
    /\ UNCHANGED <<clock, reqs, aside>>

\* taskDetailHandler, DELETE: CancelTask, answered 200 whatever the id.
TaskDelete ==
    \E id \in IdInputs :
        /\ CancelCount(tasks, id) < MaxCancels
        /\ applied' = CountCall(id)
        /\ tasks' = CancelTask(tasks, clock, id)
        /\ lastOp' = Op("CancelTask", id, "")
        /\ UNCHANGED <<nextID, clock, reqs, aside>>

InitRun ==
    /\ tasks = <<>>
    /\ applied = <<>>
    /\ nextID = 0
    /\ clock = 1
    /\ reqs = [r \in Requests |-> IdleRequest]
    /\ lastOp = NoOp
    /\ AsideIdle

\* The steps of one report request.
ReportRequest(r, DS) ==
    \/ ReportStartWith(r, DS)
    \/ ReportNewClient(r)
    \/ ExecUpdate25(r)
    \/ ExecCollect(r)
    \/ ExecComplete1(r)
    \/ ExecUpdate50(r)
    \/ ExecComplete2(r)
    \/ ExecUpdate75(r)
    \/ ExecComplete3(r)
    \/ ExecUpdate90(r)
    \/ ExecGenerateReport(r)
    \/ ExecFailStep(r)
    \/ ExecCompleteTask(r)
    \/ ReportFinish(r)

NextRun ==
    \/ Tick
    \/ TasksPost
    \/ TaskDelete
    \/ ReportRequest("r1", DatasourceParams)

\* One report request, with tasks created and cancelled beside it at any moment.
SpecRun == InitRun /\ [][NextRun]_vars

\* The datasource parameters of two requests that each name a backend.
NamedDatasources == {"prod", "http://b:9090"}

NextConcurrent ==
    \E r \in Requests : ReportRequest(r, NamedDatasources)

\* Two report requests at the same time, under any interleaving.
SpecConcurrent == InitRun /\ [][NextConcurrent]_vars

----------------------------------------------------------------------------
(* The registry over a day: tasks are created and finished, the clock moves  *)
(* by seconds and by about a day, and CleanupOldTasks is called              *)

\* The clock moves on by a second less than a day, a day, or a second more.
DayJumps == {Day - 1, Day, Day + 1}

DayJump ==
    /\ clock <= MaxClock
    /\ \E d \in DayJumps : clock' = clock + d
    /\ lastOp' = [NoOp EXCEPT !.op = "DayJump"]
    /\ UNCHANGED <<tasks, applied, nextID, reqs, aside>>

CallCleanupOldTasks ==
    /\ tasks' = CleanupOldTasks(tasks, clock)
    /\ applied' = CountCleanup(tasks')
    /\ lastOp' = [NoOp EXCEPT !.op = "CleanupOldTasks"]
    /\ UNCHANGED <<nextID, clock, reqs, aside>>

NextCleanup ==
    \/ Tick
    \/ DayJump
    \/ CallCreateTask
    \/ CallCompleteTask
    \/ CallFailTask
    \/ CallCleanupOldTasks

SpecCleanup == InitRun /\ [][NextCleanup]_vars

----------------------------------------------------------------------------
(* The registry's lock: every method takes tm.mu for its whole body; the     *)
(* handlers get *InspectionTask pointers from it and read them afterwards    *)

\* The methods that take the write lock.
LockedOps ==
    {"CreateTask", "UpdateTaskProgress", "CompleteStep", "FailStep", "CompleteTask",
     "FailTask", "CancelTask", "CleanupOldTasks"}

\* What the body of the method that holds the lock does to the registry.
LockedEffects(op, id) ==
    CASE op = "CreateTask" ->
           {CreateTask(tasks, clock, nextID + 1, name, ds) :
               name \in TaskNames, ds \in DatasourceNames}
      [] op = "UpdateTaskProgress" ->
           {UpdateTaskProgress(tasks, clock, id, p, step) :
               p \in ProgressInputs, step \in StepNameInputs}
      [] op = "CompleteStep" ->
           {CompleteStep(tasks, clock, id, step) : step \in StepNameInputs}
      [] op = "FailStep" ->
           {FailStep(tasks, clock, id, step, msg) :
               step \in StepNameInputs, msg \in ErrorMsgs}
      [] op = "CompleteTask" ->
           {CompleteTask(tasks, clock, id, path) : path \in ReportPaths}
      [] op = "FailTask" -> {FailTask(tasks, clock, id, msg) : msg \in ErrorMsgs}
      [] op = "CancelTask" -> {CancelTask(tasks, clock, id)}
      [] op = "CleanupOldTasks" -> {CleanupOldTasks(tasks, clock)}

\* Whether the body writes the debug line with log.Printf: CompleteTask does,
\* for a task it found whose start time is set.
WritesLog(op, id) ==
    /\ op = "CompleteTask"
    /\ id \in DOMAIN tasks
    /\ tasks[id].startTime # ZeroTime

\* tm.mu.Lock() at the head of a method.
LockAcquire ==
    /\ mu.op = ""
    /\ LogTotal(tasks) < MaxLogTotal
    /\ \E op \in LockedOps, id \in IdInputs :
        /\ op \in {"CreateTask", "CleanupOldTasks"} => id = GhostID
        /\ op = "CreateTask" => Created < MaxTasks
        /\ mu' = [op |-> op, id |-> id, logged |-> FALSE]
    /\ lastOp' = [NoOp EXCEPT !.op = "Lock"]
    /\ UNCHANGED <<tasks, applied, nextID, clock, reqs, reading, probe, col>>

\* log.Printf("[DEBUG] ...") inside CompleteTask.
LockedDebugLog ==
    /\ WritesLog(mu.op, mu.id)
    /\ ~mu.logged
    /\ mu' = [mu EXCEPT !.logged = TRUE]
    /\ lastOp' = [NoOp EXCEPT !.op = "log.Printf"]
    /\ UNCHANGED <<tasks, applied, nextID, clock, reqs, reading, probe, col>>

\* The rest of the body, and the deferred tm.mu.Unlock().
LockRelease ==
    /\ mu.op # ""
    /\ WritesLog(mu.op, mu.id) => mu.logged
    /\ tasks' \in LockedEffects(mu.op, mu.id)
    /\ applied' = CASE mu.op = "CreateTask" -> CountCreate(TaskID(clock, nextID + 1))
                    [] mu.op = "CleanupOldTasks" -> CountCleanup(tasks')
                    [] OTHER -> CountCall(mu.id)
    /\ nextID' = IF mu.op = "CreateTask" THEN nextID + 1 ELSE nextID
    /\ lastOp' = Op(mu.op, IF mu.op = "CreateTask" THEN TaskID(clock, nextID + 1)
                           ELSE mu.id, "")
    /\ mu' = Unlocked
    /\ UNCHANGED <<clock, reqs, reading, probe, col>>

\* taskDetailHandler, GET: GetTask under the read lock; the handler keeps the
\* pointer and encodes the task after the lock is released.
TaskGet ==
    /\ mu.op = ""
    /\ \E id \in IdInputs :
        /\ reading' = IF GetTask(tasks, id).exists THEN reading \cup {id} ELSE reading
        /\ lastOp' = Op("GetTask", id, "")
    /\ UNCHANGED <<tasks, applied, nextID, clock, reqs, mu, probe, col>>

\* json.NewEncoder(w).Encode(task) has read the task's fields.
EncodeDone ==
    /\ \E id \in reading : reading' = reading \ {id}
    /\ lastOp' = [NoOp EXCEPT !.op = "Encode"]
    /\ UNCHANGED <<tasks, applied, nextID, clock, reqs, mu, probe, col>>

NextLock ==
    \/ LockAcquire
    \/ LockedDebugLog
    \/ LockRelease
    \/ TaskGet
    \/ EncodeDone

SpecLock == InitRun /\ [][NextLock]_vars

----------------------------------------------------------------------------
(* getStatus: the threshold classifier *)

MaxValue == 22
MaxTiny == 12

Abs(x) == IF x < 0 THEN -x ELSE x

\* getStatus for float64 arguments that are whole numbers, given as integers.
\* The float64 products threshold*0.9 and threshold*0.2 are not whole numbers
\* in general; for whole numbers v and t the comparisons are exactly
\*   v >= t*0.9  <=>  10*v >= 9*t      v <= t*0.9  <=>  10*v <= 9*t
\*   math.Abs(v-t) <= t*0.2  <=>  10*|v-t| <= 2*t.
getStatusStrictBand(value, threshold, thresholdType, thresholdStatus) ==
    LET type == IF thresholdType = "" THEN "greater" ELSE thresholdType
        status == IF thresholdStatus = "" THEN "critical" ELSE thresholdStatus
        triggered ==
            CASE type = "greater" -> value > threshold
              [] type = "greater_equal" -> value >= threshold
              [] type = "less" -> value < threshold
              [] type = "less_equal" -> value <= threshold
              [] type = "equal" -> value = threshold
              [] OTHER -> FALSE
        warningTriggered ==
            CASE type = "greater" -> 10 * value > 9 * threshold
              [] type = "greater_equal" -> 10 * value > 9 * threshold
              [] type = "less" -> 10 * value < 9 * threshold
              [] type = "less_equal" -> 10 * value < 9 * threshold
              [] type = "equal" -> 10 * Abs(value - threshold) < 2 * threshold
              [] OTHER -> FALSE
    IN  IF triggered THEN status
        ELSE IF warningTriggered THEN "warning"
        ELSE IF status = "critical" THEN "normal"
        ELSE "critical"

getStatusNoBandAtThreshold(value, threshold, thresholdType, thresholdStatus) ==
    LET type == IF thresholdType = "" THEN "greater" ELSE thresholdType
        status == IF thresholdStatus = "" THEN "critical" ELSE thresholdStatus
        triggered ==
            CASE type = "greater" -> value > threshold
              [] type = "greater_equal" -> value >= threshold
              [] type = "less" -> value < threshold
              [] type = "less_equal" -> value <= threshold
              [] type = "equal" -> value = threshold
              [] OTHER -> FALSE
        warningTriggered ==
            CASE type = "greater" -> 10 * value >= 9 * threshold /\ value # threshold
              [] type = "greater_equal" -> 10 * value >= 9 * threshold
              [] type = "less" -> 10 * value <= 9 * threshold
              [] type = "less_equal" -> 10 * value <= 9 * threshold
              [] type = "equal" -> 10 * Abs(value - threshold) <= 2 * threshold
              [] OTHER -> FALSE
    IN  IF triggered THEN status
        ELSE IF warningTriggered THEN "warning"
        ELSE IF status = "critical" THEN "normal"
        ELSE "critical"

getStatusHalfBand(value, threshold, thresholdType, thresholdStatus) ==
    LET type == IF thresholdType = "" THEN "greater" ELSE thresholdType
        status == IF thresholdStatus = "" THEN "critical" ELSE thresholdStatus
        triggered ==
            CASE type = "greater" -> value > threshold
              [] type = "greater_equal" -> value >= threshold
              [] type = "less" -> value < threshold
              [] type = "less_equal" -> value <= threshold
              [] type = "equal" -> value = threshold
              [] OTHER -> FALSE
        warningTriggered ==
            CASE type = "greater" -> 10 * value >= 5 * threshold
              [] type = "greater_equal" -> 10 * value >= 5 * threshold
              [] type = "less" -> 10 * value <= 9 * threshold
              [] type = "less_equal" -> 10 * value <= 9 * threshold
              [] type = "equal" -> 10 * Abs(value - threshold) <= 2 * threshold
              [] OTHER -> FALSE
    IN  IF triggered THEN status
        ELSE IF warningTriggered THEN "warning"
        ELSE IF status = "critical" THEN "normal"
        ELSE "critical"

\* getStatus whose switches treat a type they do not know as "greater".
getStatusUnknownAsGreater(value, threshold, thresholdType, thresholdStatus) ==
    LET status == IF thresholdStatus = "" THEN "critical" ELSE thresholdStatus
        triggered ==
            CASE thresholdType = "greater_equal" -> value >= threshold
              [] thresholdType = "less" -> value < threshold
              [] thresholdType = "less_equal" -> value <= threshold
              [] thresholdType = "equal" -> value = threshold
              [] OTHER -> value > threshold
        warningTriggered ==
            CASE thresholdType = "less" -> 10 * value <= 9 * threshold
              [] thresholdType = "less_equal" -> 10 * value <= 9 * threshold
              [] thresholdType = "equal" -> 10 * Abs(value - threshold) <= 2 * threshold
              [] OTHER -> 10 * value >= 9 * threshold
    IN  IF triggered THEN status
        ELSE IF warningTriggered THEN "warning"
        ELSE IF status = "critical" THEN "normal"
        ELSE "critical"

getStatus(value, threshold, thresholdType, thresholdStatus) ==
    LET type == IF thresholdType = "" THEN "greater" ELSE thresholdType
        status == IF thresholdStatus = "" THEN "critical" ELSE thresholdStatus
        triggered ==
            CASE type = "greater" -> value > threshold
              [] type = "greater_equal" -> value >= threshold
              [] type = "less" -> value < threshold
              [] type = "less_equal" -> value <= threshold
              [] type = "equal" -> value = threshold
              [] OTHER -> FALSE
        warningTriggered ==
            CASE type = "greater" -> 10 * value >= 9 * threshold
              [] type = "greater_equal" -> 10 * value >= 9 * threshold
              [] type = "less" -> 10 * value <= 9 * threshold
              [] type = "less_equal" -> 10 * value <= 9 * threshold
              [] type = "equal" -> 10 * Abs(value - threshold) <= 2 * threshold
              [] OTHER -> FALSE
    IN  IF triggered THEN status
        ELSE IF warningTriggered THEN "warning"
        ELSE IF status = "critical" THEN "normal"
        ELSE "critical"

\* The smallest float64 values: the whole multiples k * 2^-1074 of
\* math.SmallestNonzeroFloat64, given by their count k.  Every small count is
\* a float64, so the product of a count and a constant c is the exact product
\* rounded to the nearest count.  The float64 nearest to the decimal constant
\* num/den lies above it (above = 1: 1.1, 0.9, 0.2), below it (above = -1:
\* 0.95) or on it (above = 0: 0.5); a product half way between two counts in
\* decimal is therefore rounded away from zero, towards zero, or to the even
\* count.
TinyTimes(k, num, den, above) ==
    LET a == Abs(k) * num
        q == a \div den
        r == a % den
        n == IF 2 * r < den THEN q
             ELSE IF 2 * r > den THEN q + 1
             ELSE IF above = 1 THEN q + 1
             ELSE IF above = -1 THEN q
             ELSE IF q % 2 = 0 THEN q ELSE q + 1
    IN  IF k < 0 THEN -n ELSE n

\* getStatusTiny whose band reaches to the threshold itself (factor 1 for 0.9).
getStatusTinyBandToThreshold(value, threshold, thresholdType, thresholdStatus) ==
    LET type == IF thresholdType = "" THEN "greater" ELSE thresholdType
        status == IF thresholdStatus = "" THEN "critical" ELSE thresholdStatus
        triggered ==
            CASE type = "greater" -> value > threshold
              [] type = "greater_equal" -> value >= threshold
              [] type = "less" -> value < threshold
              [] type = "less_equal" -> value <= threshold
              [] type = "equal" -> value = threshold
              [] OTHER -> FALSE
        warningTriggered ==
            CASE type = "greater" -> value >= threshold
              [] type = "greater_equal" -> value >= threshold
              [] type = "less" -> value <= threshold
              [] type = "less_equal" -> value <= threshold
              [] type = "equal" ->
                    Abs(value - threshold) <= TinyTimes(threshold, 2, 10, 1)
              [] OTHER -> FALSE
    IN  IF triggered THEN status
        ELSE IF warningTriggered THEN "warning"
        ELSE IF status = "critical" THEN "normal"
        ELSE "critical"

\* getStatus for arguments that are counts of math.SmallestNonzeroFloat64.
getStatusTiny(value, threshold, thresholdType, thresholdStatus) ==
    LET type == IF thresholdType = "" THEN "greater" ELSE thresholdType
        status == IF thresholdStatus = "" THEN "critical" ELSE thresholdStatus
        triggered ==
            CASE type = "greater" -> value > threshold
              [] type = "greater_equal" -> value >= threshold
              [] type = "less" -> value < threshold
              [] type = "less_equal" -> value <= threshold
              [] type = "equal" -> value = threshold
              [] OTHER -> FALSE
        warningTriggered ==
            CASE type = "greater" -> value >= TinyTimes(threshold, 9, 10, 1)
              [] type = "greater_equal" -> value >= TinyTimes(threshold, 9, 10, 1)
              [] type = "less" -> value <= TinyTimes(threshold, 9, 10, 1)
              [] type = "less_equal" -> value <= TinyTimes(threshold, 9, 10, 1)
              [] type = "equal" ->
                    Abs(value - threshold) <= TinyTimes(threshold, 2, 10, 1)
              [] OTHER -> FALSE
    IN  IF triggered THEN status
        ELSE IF warningTriggered THEN "warning"
        ELSE IF status = "critical" THEN "normal"
        ELSE "critical"

\* Inputs of the classifier.
ThresholdTypes ==
    {"", "greater", "greater_equal", "less", "less_equal", "equal", "between"}
ThresholdStatuses == {"", "critical", "warning", "ok"}
Values == (-MaxValue) .. MaxValue
TinyValues == (-MaxTiny) .. MaxTiny

ProbeInput(fn, numbers) ==
    [fn : {fn}, pc : {"call"}, value : numbers, threshold : numbers,
     thresholdType : ThresholdTypes, thresholdStatus : ThresholdStatuses,
     result : {""}]

InitClassify ==
    /\ tasks = <<>>
    /\ applied = <<>>
    /\ nextID = 0
    /\ clock = 1
    /\ reqs = [r \in Requests |-> IdleRequest]
    /\ lastOp = NoOp
    /\ mu = Unlocked
    /\ reading = {}
    /\ col = NoCollect
    /\ probe \in ProbeInput("getStatus", Values) \cup ProbeInput("getStatusTiny", TinyValues)

CallGetStatus ==
    /\ probe.fn = "getStatus"
    /\ probe.pc = "call"
    /\ probe' = [probe EXCEPT
                   !.pc = "done",
                   !.result = getStatus(probe.value, probe.threshold,
                                        probe.thresholdType, probe.thresholdStatus)]
    /\ lastOp' = [NoOp EXCEPT !.op = "getStatus"]
    /\ UNCHANGED <<tasks, applied, nextID, clock, reqs, mu, reading, col>>

CallGetStatusTiny ==
    /\ probe.fn = "getStatusTiny"
    /\ probe.pc = "call"
    /\ probe' = [probe EXCEPT
                   !.pc = "done",
                   !.result = getStatusTiny(probe.value, probe.threshold,
                                            probe.thresholdType, probe.thresholdStatus)]
    /\ lastOp' = [NoOp EXCEPT !.op = "getStatus"]
    /\ UNCHANGED <<tasks, applied, nextID, clock, reqs, mu, reading, col>>

NextClassify ==
    \/ CallGetStatus
    \/ CallGetStatusTiny

SpecClassify == InitClassify /\ [][NextClassify]_vars

----------------------------------------------------------------------------
(* CollectMetrics: the collection engine *)

MaxVector == 2
MaxAnswered == 3

\* float64 sample values: a whole number, NaN, +Inf or -Inf.
Finite(n) == [kind |-> "finite", n |-> n]
NaN == [kind |-> "NaN", n |-> 0]
PosInf == [kind |-> "+Inf", n |-> 0]
NegInf == [kind |-> "-Inf", n |-> 0]
IsNaN(v) == v.kind = "NaN"
IsInf(v) == v.kind \in {"+Inf", "-Inf"}

\* The configured metric types (config.MetricTypes): a metric definition has
\* a name, a query, a threshold with its type and status, and the map
\* metric.Labels from label name to alias.
MetricCPU ==
    [name |-> "cpu", query |-> "q_cpu", threshold |-> 80,
     thresholdType |-> "greater", thresholdStatus |-> "",
     labels |-> ("instance" :> "Node") @@ ("job" :> "Job")]
MetricUp ==
    [name |-> "up", query |-> "q_up", threshold |-> 1,
     thresholdType |-> "less", thresholdStatus |-> "critical",
     labels |-> <<>>]
MetricMem ==
    [name |-> "mem", query |-> "q_mem", threshold |-> 20,
     thresholdType |-> "equal", thresholdStatus |-> "ok",
     labels |-> ("instance" :> "Node")]
MetricTypes ==
    << [type |-> "basic", metrics |-> <<MetricCPU, MetricUp>>],
       [type |-> "memory", metrics |-> <<MetricMem>>] >>

\* The configurations a collector is made with: both types, or the first only.
Configs == {MetricTypes, SubSeq(MetricTypes, 1, 1)}

\* The label sets (model.Metric) of the samples the backend returns.
LabelsFull == ("instance" :> "a") @@ ("job" :> "j")
LabelsNoInstance == ("job" :> "j") @@ ("pod" :> "p")
LabelsEmptyInstance == ("instance" :> "")
LabelsInstance == ("instance" :> "b")
LabelsNone == <<>>

\* The orders in which the runtime may range over the map metric.Labels.
LabelOrders(metric) ==
    {o \in [1 .. Cardinality(DOMAIN metric.labels) -> DOMAIN metric.labels] :
        \A i, j \in DOMAIN o : i # j => o[i] # o[j]}

\* A sample of a vector: its labels and value, and the order in which the
\* loop over metric.Labels visits the configured labels for this sample.
SamplesOf(metric, labelsets, values) ==
    {[metric |-> l, value |-> v, order |-> o] :
        l \in labelsets, v \in values, o \in LabelOrders(metric)}

Samples(metric) ==
    CASE metric.name = "cpu" ->
           SamplesOf(metric, {LabelsFull}, {Finite(95), NaN})
           \cup SamplesOf(metric, {LabelsNoInstance}, {Finite(50)})
      [] metric.name = "up" -> SamplesOf(metric, {LabelsNone}, {Finite(1), NegInf})
      [] metric.name = "mem" ->
           SamplesOf(metric, {LabelsEmptyInstance}, {Finite(20)})
           \cup SamplesOf(metric, {LabelsInstance}, {PosInf})

Vectors(metric) ==
    UNION {[1 .. n -> Samples(metric)] : n \in 0 .. MaxVector}

\* What c.Client.Query returns: an error, a scalar, or a vector of samples.
QueryError == [kind |-> "error", v |-> <<>>]
QueryScalar == [kind |-> "scalar", v |-> <<>>]
QueryVector(v) == [kind |-> "vector", v |-> v]
Responses(metric) ==
    {QueryError, QueryScalar} \cup {QueryVector(v) : v \in Vectors(metric)}

\* labels: one LabelData per configured label, "-" for a label that the
\* sample does not have or has empty.
ResolveLabelsRepeatFirst(metric, sample) ==
    [i \in 1 .. Len(sample.order) |->
        LET configLabel == sample.order[1]
            found == /\ configLabel \in DOMAIN sample.metric
                     /\ sample.metric[configLabel] # ""
        IN  [name |-> configLabel,
             alias |-> metric.labels[configLabel],
             value |-> IF found THEN sample.metric[configLabel] ELSE "-"]]

ResolveLabels(metric, sample) ==
    [i \in 1 .. Len(sample.order) |->
        LET configLabel == sample.order[i]
            found == /\ configLabel \in DOMAIN sample.metric
                     /\ sample.metric[configLabel] # ""
        IN  [name |-> configLabel,
             alias |-> metric.labels[configLabel],
             value |-> IF found THEN sample.metric[configLabel] ELSE "-"]]

\* The loop of validateMetricData over data.Labels, from label i on: the
\* first label that fails one of the two tests, its name tested before its
\* value, gives the error; rejected are the values taken for empty.
RECURSIVE CheckLabelsFrom(_, _, _, _)
CheckLabelsFrom(labels, i, configLabels, rejected) ==
    IF i > Len(labels) THEN ""
    ELSE IF labels[i].name \notin DOMAIN configLabels THEN "label not configured"
    ELSE IF labels[i].value \in rejected THEN "label value empty"
    ELSE CheckLabelsFrom(labels, i + 1, configLabels, rejected)

\* validateMetricData that takes the placeholder "-" for an empty value.
validateMetricDataNoPlaceholder(data, configLabels) ==
    IF Len(data.labels) # Cardinality(DOMAIN configLabels)
    THEN "label count mismatch"
    ELSE CheckLabelsFrom(data.labels, 1, configLabels, {"", "-"})

\* validateMetricData: "" when the data is valid, else the error.
validateMetricData(data, configLabels) ==
    IF Len(data.labels) # Cardinality(DOMAIN configLabels)
    THEN "label count mismatch"
    ELSE CheckLabelsFrom(data.labels, 1, configLabels, {""})

\* report.MetricData of a sample whose value is finite (description, unit
\* and status text are copies of the definition and are left out).
MetricData(metric, sample, now) ==
    [name |-> metric.name,
     value |-> sample.value,
     threshold |-> metric.threshold,
     status |-> getStatus(sample.value.n, metric.threshold,
                          metric.thresholdType, metric.thresholdStatus),
     timestamp |-> now,
     labels |-> ResolveLabels(metric, sample)]

\* The loop over the samples of a vector, from sample i on, metrics being
\* the slice built so far.
RECURSIVE CollectSamplesStopAtInvalid(_, _, _, _, _)
CollectSamplesStopAtInvalid(metric, v, i, metrics, now) ==
    IF i > Len(v) THEN metrics
    ELSE IF IsNaN(v[i].value) \/ IsInf(v[i].value)
    THEN metrics
    ELSE IF validateMetricData(MetricData(metric, v[i], now), metric.labels) # ""
    THEN CollectSamplesStopAtInvalid(metric, v, i + 1, metrics, now)
    ELSE CollectSamplesStopAtInvalid(metric, v, i + 1,
                                     Append(metrics, MetricData(metric, v[i], now)), now)

RECURSIVE CollectSamples(_, _, _, _, _)
CollectSamples(metric, v, i, metrics, now) ==
    IF i > Len(v) THEN metrics
    ELSE IF IsNaN(v[i].value) \/ IsInf(v[i].value)
    THEN CollectSamples(metric, v, i + 1, metrics, now)
    ELSE IF validateMetricData(MetricData(metric, v[i], now), metric.labels) # ""
    THEN CollectSamples(metric, v, i + 1, metrics, now)
    ELSE CollectSamples(metric, v, i + 1,
                        Append(metrics, MetricData(metric, v[i], now)), now)

\* No query is in flight.
NoQuery == [query |-> "", client |-> ""]

\* The collector between two queries: c.ti and c.mi are the positions of the
\* loops over c.config (config.MetricTypes) and metricType.Metrics.  NextQuery moves to
\* the next metric definition, entering the following type groups (each gets
\* its MetricGroup when it is entered) and leaving the loops after the last.
RECURSIVE NextQuery(_)
NextQuery(c) ==
    IF c.ti >= 1 /\ c.mi <= Len(c.config[c.ti].metrics)
    THEN [c EXCEPT !.pc = "query"]
    ELSE IF c.ti = Len(c.config)
    THEN [c EXCEPT !.pc = "return"]
    ELSE NextQuery([c EXCEPT
                      !.ti = c.ti + 1,
                      !.mi = 1,
                      !.groups = MapPut(c.groups, c.config[c.ti + 1].type, <<>>)])

\* CollectMetrics up to its first query.
CollectBegin(config, collector, now) ==
    NextQuery([pc |-> "call", collector |-> collector, updating |-> "",
               asked |-> NoQuery,
               config |-> config,
               datasource |-> collector.prometheusURL, timestamp |-> now,
               ti |-> 0, mi |-> 1, groups |-> <<>>, queries |-> <<>>,
               err |-> ""])

\* One pass of the loop over the metric definitions: the query of the
\* current definition has returned resp.
QueryStepAbortOnError(c, resp, now) ==
    LET metricType == c.config[c.ti]
        metric == metricType.metrics[c.mi]
        asked == [c EXCEPT !.queries = Append(c.queries, [query |-> c.asked.query,
                                                           resp |-> resp,
                                                           client |-> c.asked.client]),
                           !.asked = NoQuery,
                           !.mi = c.mi + 1]
    IN  IF resp.kind = "error"
        THEN [asked EXCEPT !.pc = "return", !.err = "query failed"]
        ELSE IF resp.kind = "vector"
        THEN NextQuery([asked EXCEPT
                 !.groups[metricType.type] =
                     MapPut(c.groups[metricType.type], metric.name,
                            CollectSamples(metric, resp.v, 1, <<>>, now))])
        ELSE NextQuery(asked)

QueryStepRetryOnce(c, resp, now) ==
    LET metricType == c.config[c.ti]
        metric == metricType.metrics[c.mi]
        asked == [c EXCEPT !.queries = Append(c.queries, [query |-> c.asked.query,
                                                           resp |-> resp,
                                                           client |-> c.asked.client]),
                           !.asked = NoQuery,
                           !.mi = c.mi + 1]
        first == \/ c.queries = <<>>
                 \/ c.queries[Len(c.queries)].query # metric.query
    IN  IF resp.kind = "error"
        THEN IF first THEN [asked EXCEPT !.mi = c.mi, !.pc = "query"] ELSE NextQuery(asked)
        ELSE IF resp.kind = "vector"
        THEN NextQuery([asked EXCEPT
                 !.groups[metricType.type] =
                     MapPut(c.groups[metricType.type], metric.name,
                            CollectSamples(metric, resp.v, 1, <<>>, now))])
        ELSE NextQuery(asked)

QueryStepKeepLastMetric(c, resp, now) ==
    LET metricType == c.config[c.ti]
        metric == metricType.metrics[c.mi]
        asked == [c EXCEPT !.queries = Append(c.queries, [query |-> c.asked.query,
                                                           resp |-> resp,
                                                           client |-> c.asked.client]),
                           !.asked = NoQuery,
                           !.mi = c.mi + 1]
    IN  IF resp.kind = "error"
        THEN NextQuery(asked)
        ELSE IF resp.kind = "vector"
        THEN NextQuery([asked EXCEPT
                 !.groups[metricType.type] =
                     MapPut(<<>>, metric.name,
                            CollectSamples(metric, resp.v, 1, <<>>, now))])
        ELSE NextQuery(asked)

\* QueryStep that stores the metric's sequence only when a sample was accepted.
QueryStepSkipEmpty(c, resp, now) ==
    LET metricType == c.config[c.ti]
        metric == metricType.metrics[c.mi]
        asked == [c EXCEPT !.queries = Append(c.queries, [query |-> c.asked.query,
                                                           resp |-> resp,
                                                           client |-> c.asked.client]),
                           !.asked = NoQuery,
                           !.mi = c.mi + 1]
        metrics == CollectSamples(metric, resp.v, 1, <<>>, now)
    IN  IF resp.kind = "vector" /\ metrics # <<>>
        THEN NextQuery([asked EXCEPT
                 !.groups[metricType.type] =
                     MapPut(c.groups[metricType.type], metric.name, metrics)])
        ELSE NextQuery(asked)

QueryStep(c, resp, now) ==
    LET metricType == c.config[c.ti]
        metric == metricType.metrics[c.mi]
        asked == [c EXCEPT !.queries = Append(c.queries, [query |-> c.asked.query,
                                                           resp |-> resp,
                                                           client |-> c.asked.client]),
                           !.asked = NoQuery,
                           !.mi = c.mi + 1]
    IN  IF resp.kind = "error"
        THEN NextQuery(asked)
        ELSE IF resp.kind = "vector"
        THEN NextQuery([asked EXCEPT
                 !.groups[metricType.type] =
                     MapPut(c.groups[metricType.type], metric.name,
                            CollectSamples(metric, resp.v, 1, <<>>, now))])
        ELSE NextQuery(asked)

\* The URL UpdatePrometheusURL is called with.
CollectorURLs == {"http://b:9090"}

\* c.Client = client.API
UpdateClient(collector, url) == [collector EXCEPT !.client = NewClient(url)]

\* c.prometheusURL = url
UpdateURL(collector, url) == [collector EXCEPT !.prometheusURL = url]

\* c.UpdatePrometheusURL(url) is called on the collector and runs up to its
\* first write. The method takes no lock and tests nothing, so it may be
\* called before, during and after a CollectMetrics of the same collector,
\* whose reads of c.prometheusURL and c.Client then fall before, between or
\* after the two writes. A failing prometheus.NewClient returns at once.
\* One call is under way at a time (col.updating holds its url); lastOp keeps
\* the step of CollectMetrics taken last.
CallUpdatePrometheusURL ==
    /\ col.updating = ""
    /\ \E url \in CollectorURLs, ok \in BOOLEAN :
        col' = IF ok
               THEN [col EXCEPT !.collector = UpdateClient(col.collector, url),
                                !.updating = url]
               ELSE col
    /\ UNCHANGED <<tasks, applied, nextID, clock, reqs, lastOp, mu, reading, probe>>

\* The second write of UpdatePrometheusURL, and its return.
UpdateReturn ==
    /\ col.updating # ""
    /\ col' = [col EXCEPT !.collector = UpdateURL(col.collector, col.updating),
                          !.updating = ""]
    /\ UNCHANGED <<tasks, applied, nextID, clock, reqs, lastOp, mu, reading, probe>>

\* The samples that the queries from the k-th on were answered with: one
\* collection is answered with at most MaxAnswered samples in all, in vectors
\* of at most MaxVector samples.
RECURSIVE Answered(_, _)
Answered(queries, k) ==
    IF k > Len(queries) THEN 0
    ELSE Len(queries[k].resp.v) + Answered(queries, k + 1)

\* c.CollectMetrics() is called on the collector, with the configuration it holds.
CallCollectMetrics ==
    /\ col.pc = "none"
    /\ \E config \in Configs :
        col' = [CollectBegin(config, col.collector, clock)
                   EXCEPT !.updating = col.updating]
    /\ lastOp' = [NoOp EXCEPT !.op = "CollectMetrics"]
    /\ UNCHANGED <<tasks, applied, nextID, clock, reqs, mu, reading, probe>>

\* c.Client.Query(ctx, metric.Query, time.Now()) is called for the current
\* metric definition: the call reads c.Client, and the query is in flight on
\* that client until it returns, whatever UpdatePrometheusURL writes meanwhile.
CollectQueryCall ==
    /\ col.pc = "query"
    /\ col' = [col EXCEPT
                 !.pc = "wait",
                 !.asked = [query |-> col.config[col.ti].metrics[col.mi].query,
                            client |-> col.collector.client]]
    /\ lastOp' = [NoOp EXCEPT !.op = "QueryCall"]
    /\ UNCHANGED <<tasks, applied, nextID, clock, reqs, mu, reading, probe>>

\* The query in flight returns, and the loop handles its result.
CollectQueryReturn ==
    /\ col.pc = "wait"
    /\ \E resp \in Responses(col.config[col.ti].metrics[col.mi]) :
        /\ Answered(col.queries, 1) + Len(resp.v) <= MaxAnswered
        /\ col' = QueryStep(col, resp, clock)
    /\ lastOp' = [NoOp EXCEPT !.op = "Query"]
    /\ UNCHANGED <<tasks, applied, nextID, clock, reqs, mu, reading, probe>>

\* return data, nil
CollectReturn ==
    /\ col.pc = "return"
    /\ col' = [col EXCEPT !.pc = "done"]
    /\ lastOp' = [NoOp EXCEPT !.op = "CollectReturn"]
    /\ UNCHANGED <<tasks, applied, nextID, clock, reqs, mu, reading, probe>>

NextCollect ==
    \/ CallUpdatePrometheusURL
    \/ UpdateReturn
    \/ CallCollectMetrics
    \/ CollectQueryCall
    \/ CollectQueryReturn
    \/ CollectReturn

SpecCollect == InitRun /\ [][NextCollect]_vars

\* CollectMetrics runs on in its goroutine, and every query returns.
SpecCollectLive ==
    /\ InitRun
    /\ [][NextCollect]_vars
    /\ WF_vars(CollectQueryCall)
    /\ WF_vars(CollectQueryReturn)
    /\ WF_vars(CollectReturn)

----------------------------------------------------------------------------
(* CalculateAlertSummary and CalculateTypeAlertSummary *)

MaxSamples == 2

\* The range loops over MetricGroups and MetricsByName visit the keys of a map
\* in an unspecified order; the counters they add up do not depend on it, and
\* the loops below take the keys in the order CHOOSE gives.

NoSummary ==
    [TotalAlerts |-> 0, CriticalAlerts |-> 0, WarningAlerts |-> 0,
     NormalMetrics |-> 0, TotalMetrics |-> 0]

\* The body of the loop over the samples of CalculateAlertSummary.
AddMetricWarningNoAlert(summary, metric) ==
    LET counted == [summary EXCEPT !.TotalMetrics = @ + 1] IN
    CASE metric.status = "critical" ->
           [counted EXCEPT !.CriticalAlerts = @ + 1, !.TotalAlerts = @ + 1]
      [] metric.status = "warning" ->
           [counted EXCEPT !.WarningAlerts = @ + 1]
      [] OTHER -> [counted EXCEPT !.NormalMetrics = @ + 1]

AddMetric(summary, metric) ==
    LET counted == [summary EXCEPT !.TotalMetrics = @ + 1] IN
    CASE metric.status = "critical" ->
           [counted EXCEPT !.CriticalAlerts = @ + 1, !.TotalAlerts = @ + 1]
      [] metric.status = "warning" ->
           [counted EXCEPT !.WarningAlerts = @ + 1, !.TotalAlerts = @ + 1]
      [] OTHER -> [counted EXCEPT !.NormalMetrics = @ + 1]

\* for _, metric := range metrics, from index i on
RECURSIVE AddMetrics(_, _, _)
AddMetrics(summary, metrics, i) ==
    IF i > Len(metrics) THEN summary
    ELSE AddMetrics(AddMetric(summary, metrics[i]), metrics, i + 1)

\* for _, metrics := range group.MetricsByName, the keys in names remaining
RECURSIVE AddMetricsByName(_, _, _)
AddMetricsByName(summary, byName, names) ==
    IF names = {} THEN summary
    ELSE LET n == CHOOSE x \in names : TRUE IN
         AddMetricsByName(AddMetrics(summary, byName[n], 1), byName, names \ {n})

\* for _, group := range data.MetricGroups, the keys in types remaining
RECURSIVE AddGroups(_, _, _)
AddGroups(summary, groups, types) ==
    IF types = {} THEN summary
    ELSE LET t == CHOOSE x \in types : TRUE IN
         AddGroups(AddMetricsByName(summary, groups[t], DOMAIN groups[t]),
                   groups, types \ {t})

\* data is the map data.MetricGroups: type name -> metric name -> samples.
CalculateAlertSummary(data) == AddGroups(NoSummary, data, DOMAIN data)

\* The body of the loop over the samples of CalculateTypeAlertSummary.
AddTypeMetric(summary, metric) ==
    LET counted == [summary EXCEPT !.TotalMetrics = @ + 1] IN
    CASE metric.status = "critical" -> [counted EXCEPT !.CriticalCount = @ + 1]
      [] metric.status = "warning" -> [counted EXCEPT !.WarningCount = @ + 1]
      [] OTHER -> [counted EXCEPT !.NormalCount = @ + 1]

RECURSIVE AddTypeMetrics(_, _, _)
AddTypeMetrics(summary, metrics, i) ==
    IF i > Len(metrics) THEN summary
    ELSE AddTypeMetrics(AddTypeMetric(summary, metrics[i]), metrics, i + 1)

RECURSIVE AddTypeMetricsByName(_, _, _)
AddTypeMetricsByName(summary, byName, names) ==
    IF names = {} THEN summary
    ELSE LET n == CHOOSE x \in names : TRUE IN
         AddTypeMetricsByName(AddTypeMetrics(summary, byName[n], 1), byName,
                              names \ {n})

\* The TypeAlertSummary of one type name.
TypeSummary(typeName, group) ==
    AddTypeMetricsByName([Type |-> typeName, TotalMetrics |-> 0, CriticalCount |-> 0,
                          WarningCount |-> 0, NormalCount |-> 0],
                         group, DOMAIN group)

\* The type names of the model in the order of Go's string comparison.
TypeNames == <<"basic", "k8s", "memory">>
TypeRank(name) == CHOOSE i \in DOMAIN TypeNames : TypeNames[i] = name
\* a > b on type names
StringGreater(a, b) == TypeRank(a) > TypeRank(b)

Swap(result, i, j) ==
    [result EXCEPT ![i] = result[j], ![j] = result[i]]

\* The two loops that sort result, at the pass (i, j), with indices from 1:
\* for i := 0; i < len-1; i++ { for j := i+1; j < len; j++ { ... } }
RECURSIVE SortByTypeAdjacentOnly(_, _, _)
SortByTypeAdjacentOnly(result, i, j) ==
    IF i > Len(result) - 1 THEN result
    ELSE IF j > i + 1 \/ j > Len(result) THEN SortByTypeAdjacentOnly(result, i + 1, i + 2)
    ELSE IF StringGreater(result[i].Type, result[j].Type)
    THEN SortByTypeAdjacentOnly(Swap(result, i, j), i, j + 1)
    ELSE SortByTypeAdjacentOnly(result, i, j + 1)

RECURSIVE SortByType(_, _, _)
SortByType(result, i, j) ==
    IF i > Len(result) - 1 THEN result
    ELSE IF j > Len(result) THEN SortByType(result, i + 1, i + 2)
    ELSE IF StringGreater(result[i].Type, result[j].Type)
    THEN SortByType(Swap(result, i, j), i, j + 1)
    ELSE SortByType(result, i, j + 1)

\* The orders in which the loop over the map typeSummaries may append.
TypeOrders(data) ==
    {o \in [1 .. Cardinality(DOMAIN data) -> DOMAIN data] :
        \A i, j \in DOMAIN o : i # j => o[i] # o[j]}

\* order is the order in which the loop over typeSummaries appended to result.
CalculateTypeAlertSummary(data, order) ==
    SortByType([i \in DOMAIN order |-> TypeSummary(order[i], data[order[i]])], 1, 2)

\* The report data whose summaries are computed: built a group, a metric
\* name or a sample at a time.
MetricNames == {"cpu", "mem"}
StatusStrings == {"critical", "warning", "normal", "ok"}

SampleTotal(data) == CalculateAlertSummary(data).TotalMetrics

InitSummary ==
    /\ tasks = <<>>
    /\ applied = <<>>
    /\ nextID = 0
    /\ clock = 1
    /\ reqs = [r \in Requests |-> IdleRequest]
    /\ lastOp = NoOp
    /\ mu = Unlocked
    /\ reading = {}
    /\ col = NoCollect
    /\ probe = [fn |-> "summary", pc |-> "build", data |-> <<>>,
                summary |-> NoSummary, types |-> <<>>]

Building == probe.fn = "summary" /\ probe.pc = "build"

\* data.MetricGroups[t] = a group with no metrics
DataAddGroup ==
    /\ Building
    /\ \E t \in {TypeNames[i] : i \in DOMAIN TypeNames} \ DOMAIN probe.data :
        probe' = [probe EXCEPT !.data = MapPut(probe.data, t, <<>>)]
    /\ lastOp' = [NoOp EXCEPT !.op = "DataAddGroup"]
    /\ UNCHANGED <<tasks, applied, nextID, clock, reqs, mu, reading, col>>

\* group.MetricsByName[n] = an empty slice
DataAddMetric ==
    /\ Building
    /\ \E t \in DOMAIN probe.data : \E n \in MetricNames \ DOMAIN probe.data[t] :
        probe' = [probe EXCEPT !.data[t] = MapPut(probe.data[t], n, <<>>)]
    /\ lastOp' = [NoOp EXCEPT !.op = "DataAddMetric"]
    /\ UNCHANGED <<tasks, applied, nextID, clock, reqs, mu, reading, col>>

\* one more sample with some status
DataAddSample ==
    /\ Building
    /\ SampleTotal(probe.data) < MaxSamples
    /\ \E t \in DOMAIN probe.data : \E n \in DOMAIN probe.data[t] :
       \E status \in StatusStrings :
        probe' = [probe EXCEPT !.data[t][n] = Append(@, [status |-> status])]
    /\ lastOp' = [NoOp EXCEPT !.op = "DataAddSample"]
    /\ UNCHANGED <<tasks, applied, nextID, clock, reqs, mu, reading, col>>

CallCalculateAlertSummary ==
    /\ Building
    /\ probe' = [probe EXCEPT !.pc = "summary",
                              !.summary = CalculateAlertSummary(probe.data)]
    /\ lastOp' = [NoOp EXCEPT !.op = "CalculateAlertSummary"]
    /\ UNCHANGED <<tasks, applied, nextID, clock, reqs, mu, reading, col>>

CallCalculateTypeAlertSummary ==
    /\ Building
    /\ \E order \in TypeOrders(probe.data) :
        probe' = [probe EXCEPT !.pc = "types",
                               !.types = CalculateTypeAlertSummary(probe.data, order)]
    /\ lastOp' = [NoOp EXCEPT !.op = "CalculateTypeAlertSummary"]
    /\ UNCHANGED <<tasks, applied, nextID, clock, reqs, mu, reading, col>>

NextSummary ==
    \/ DataAddGroup
    \/ DataAddMetric
    \/ DataAddSample
    \/ CallCalculateAlertSummary
    \/ CallCalculateTypeAlertSummary

SpecSummary == InitSummary /\ [][NextSummary]_vars

----------------------------------------------------------------------------
(* A collection followed by the notifications, which compute the summary of  *)
(* the collected data                                                        *)

\* sendNotificationsWithContext: alertSummary := notify.CalculateAlertSummary(*reportData)
SendNotifications ==
    /\ col.pc = "done"
    /\ col' = [col EXCEPT !.pc = "notified"]
    /\ probe' = [fn |-> "summary", pc |-> "summary", data |-> col.groups,
                 summary |-> CalculateAlertSummary(col.groups), types |-> <<>>]
    /\ lastOp' = [NoOp EXCEPT !.op = "CalculateAlertSummary"]
    /\ UNCHANGED <<tasks, applied, nextID, clock, reqs, mu, reading>>

NextEndToEnd ==
    \/ CallUpdatePrometheusURL
    \/ UpdateReturn
    \/ CallCollectMetrics
    \/ CollectQueryCall
    \/ CollectQueryReturn
    \/ CollectReturn
    \/ SendNotifications

SpecEndToEnd == InitRun /\ [][NextEndToEnd]_vars

----------------------------------------------------------------------------
(* Claims *)

\* The calls that change a task by id.
Mutators ==
    {"UpdateTaskProgress", "CompleteStep", "FailStep", "CompleteTask", "FailTask",
     "CancelTask"}

\* The status changes the lifecycle allows.
LifecycleSteps ==
    {<<StatusPending, StatusRunning>>, <<StatusRunning, StatusCompleted>>,
     <<StatusRunning, StatusFailed>>}

\* C1: a task's status changes only along pending->running, running->completed
\* or running->failed, except that CancelTask may force any status to failed.
C1_StatusLifecycle ==
    [][\A id \in (DOMAIN tasks) \cap (DOMAIN tasks') :
          tasks'[id].status # tasks[id].status =>
            \/ <<tasks[id].status, tasks'[id].status>> \in LifecycleSteps
            \/ /\ lastOp'.op = "CancelTask"
               /\ lastOp'.id = id
               /\ tasks'[id].status = StatusFailed]_vars

\* C2: a task's progress takes only the values 0, 25, 50, 75, 90, 100 and no
\* step of a run or of the registry lowers it, under any interleaving of
\* requests.
C2_ProgressMonotone ==
    [][\A id \in (DOMAIN tasks) \cap (DOMAIN tasks') :
          /\ tasks'[id].progress \in {0, 25, 50, 75, 90, 100}
          /\ tasks'[id].progress >= tasks[id].progress]_vars

\* C3: once the task a run created has been cancelled, the run makes no further
\* UpdateTaskProgress, CompleteStep or CompleteTask call for it.
C3_CancelStopsRun ==
    [][\A r \in Requests :
          ( /\ lastOp'.by = r
            /\ lastOp'.op \in {"UpdateTaskProgress", "CompleteStep", "CompleteTask"}
            /\ reqs[r].created
            /\ reqs[r].taskID \in DOMAIN tasks )
          => ~tasks[reqs[r].taskID].cancelled]_vars

\* C4: a request that ended on a per-run fatal fault (the client could not be
\* constructed, the report writer failed) leaves its task failed and answered
\* with an error.
C4_FaultFailsTask ==
    \A r \in Requests :
        ( /\ reqs[r].pc = "done"
          /\ reqs[r].fault \in {"client", "writer"}
          /\ reqs[r].taskID \in DOMAIN tasks )
        => /\ tasks[reqs[r].taskID].status = StatusFailed
           /\ reqs[r].http >= 400

\* C5: when a request has run to its end, the task created for it is completed
\* or failed.
C5_RunEndsTask ==
    \A r \in Requests :
        ( /\ reqs[r].pc = "done"
          /\ reqs[r].created
          /\ reqs[r].taskID \in DOMAIN tasks )
        => tasks[reqs[r].taskID].status \in {StatusCompleted, StatusFailed}

\* C6: CancelTask on an existing task leaves it failed whatever its status was,
\* with the cancellation message as its error, the end time stamped, exactly
\* one error entry appended to its log and its cancellation token signalled.
C6_CancelForcesFailed ==
    [][( /\ lastOp'.op = "CancelTask"
         /\ lastOp'.existed )
       => LET id == lastOp'.id IN
          /\ id \in DOMAIN tasks /\ id \in DOMAIN tasks'
          /\ tasks'[id].status = StatusFailed
          /\ tasks'[id].error = "cancelled"
          /\ tasks'[id].endTime = clock
          /\ Len(tasks'[id].logs) = Len(tasks[id].logs) + 1
          /\ SubSeq(tasks'[id].logs, 1, Len(tasks[id].logs)) = tasks[id].logs
          /\ tasks'[id].logs[Len(tasks'[id].logs)].type = "error"
          /\ tasks'[id].cancelled]_vars

\* A pending task has just been cancelled, after the clock moved on from its start.
C6_Witness ==
    /\ lastOp.op = "CancelTask"
    /\ lastOp.existed
    /\ lastOp.prev = StatusPending
    /\ tasks[lastOp.id].status = StatusFailed
    /\ tasks[lastOp.id].endTime > tasks[lastOp.id].startTime

\* C7 as stated: CancelTask on a task that is completed or failed leaves its
\* status, error message, end time and log unchanged.
C7_CancelFinishedIgnored ==
    [][( /\ lastOp'.op = "CancelTask"
         /\ lastOp'.existed
         /\ lastOp'.prev \in {StatusCompleted, StatusFailed} )
       => LET id == lastOp'.id IN
          /\ tasks'[id].status = tasks[id].status
          /\ tasks'[id].error = tasks[id].error
          /\ tasks'[id].endTime = tasks[id].endTime
          /\ tasks'[id].logs = tasks[id].logs]_vars

\* C7 amended: CancelTask on a task that is completed or failed is not ignored:
\* the task is failed afterwards, its error message is the cancellation
\* message, its end time is stamped anew and its log is one entry longer; no
\* other task changes and none is added or removed.
C7_CancelFinishedOverwrites ==
    [][( /\ lastOp'.op = "CancelTask"
         /\ lastOp'.existed
         /\ lastOp'.prev \in {StatusCompleted, StatusFailed} )
       => LET id == lastOp'.id IN
          /\ DOMAIN tasks' = DOMAIN tasks
          /\ \A other \in (DOMAIN tasks) \ {id} : tasks'[other] = tasks[other]
          /\ tasks'[id].status = StatusFailed
          /\ tasks'[id].error = "cancelled"
          /\ tasks'[id].endTime = clock
          /\ Len(tasks'[id].logs) = Len(tasks[id].logs) + 1
          /\ tasks'[id].reportPath = tasks[id].reportPath
          /\ tasks'[id].progress = tasks[id].progress]_vars

\* A completed task has just been cancelled: it is failed, at progress 100.
C7_Witness ==
    /\ lastOp.op = "CancelTask"
    /\ lastOp.existed
    /\ lastOp.prev = StatusCompleted
    /\ tasks[lastOp.id].status = StatusFailed
    /\ tasks[lastOp.id].progress = 100

\* C8: a mutator called with an id that is not in the registry changes nothing:
\* the same tasks, every field of each as before, no task created.
C8_UnknownIdNoChange ==
    [][( /\ lastOp'.op \in Mutators
         /\ ~lastOp'.existed )
       => /\ tasks' = tasks
          /\ nextID' = nextID]_vars

\* UpdateTaskProgress has just been called with an unknown id on a registry
\* that holds a task.
C8_Witness ==
    /\ lastOp.op = "UpdateTaskProgress"
    /\ ~lastOp.existed
    /\ lastOp.id \notin DOMAIN tasks
    /\ DOMAIN tasks # {}

\* C9: the task CreateTask returns is pending at progress 0, has the four steps
\* in their fixed order, all pending, and one log entry of type info; GetTask of
\* the returned id finds it.
C9_CreateTaskShape ==
    lastOp.op = "CreateTask" =>
        /\ GetTask(tasks, lastOp.id).exists
        /\ LET t == GetTask(tasks, lastOp.id).task IN
           /\ t.id = lastOp.id
           /\ t.status = StatusPending
           /\ t.progress = 0
           /\ Len(t.steps) = 4
           /\ [i \in 1..4 |-> t.steps[i].name]
                = <<StepCollectResources, StepCollectServices,
                    StepAnalyzeAlerts, StepGenerateReport>>
           /\ \A i \in 1..4 : t.steps[i].status = StatusPending
           /\ Len(t.logs) = 1
           /\ t.logs[1].type = "info"

\* CreateTask has just returned the second task of the registry.
C9_Witness ==
    /\ lastOp.op = "CreateTask"
    /\ Cardinality(DOMAIN tasks) = 2
    /\ lastOp.id \in DOMAIN tasks

\* C10: the id CreateTask returns is the id of no task created earlier, so
\* CreateTask never replaces a registry entry.
C10_UniqueIds ==
    lastOp.op = "CreateTask" => ~lastOp.existed


\* C11: CleanupOldTasks removes exactly the tasks started more than 24 hours
\* before the call, whatever their status: one started 24h+1s ago goes, one
\* started 24h ago or 24h-1s ago stays, and the tasks that stay are unchanged.
C11_CleanupByAge ==
    [][lastOp'.op = "CleanupOldTasks" =>
         /\ DOMAIN tasks' \subseteq DOMAIN tasks
         /\ \A id \in DOMAIN tasks :
              LET age == clock - tasks[id].startTime IN
              /\ age >= Day + 1 => id \notin DOMAIN tasks'
              /\ age <= Day => (id \in DOMAIN tasks' /\ tasks'[id] = tasks[id])]_vars

\* CleanupOldTasks has just removed one of two tasks and kept the other, a
\* completed task that started exactly 24 hours before.
C11_Witness ==
    /\ lastOp.op = "CleanupOldTasks"
    /\ nextID = 2
    /\ Cardinality(DOMAIN tasks) = 1
    /\ \E id \in DOMAIN tasks :
         /\ clock - tasks[id].startTime = Day
         /\ tasks[id].status = StatusCompleted


\* C12: the task data a handler obtains from the registry is never read while
\* a mutator is modifying the same task: no mutator is inside its locked body
\* for a task that a handler is reading.
C12_NoReadDuringWrite ==
    ~( /\ mu.op \in Mutators
       /\ mu.id \in DOMAIN tasks
       /\ mu.id \in reading )

\* C13: no registry operation writes log output between taking and releasing
\* the lock.
C13_NoOutputUnderLock ==
    lastOp.op = "log.Printf" => mu.op = ""


\* A classification that has been made, of whole-number arguments.
Classified == probe.fn = "getStatus" /\ probe.pc = "done"
ClassifiedTiny == probe.fn = "getStatusTiny" /\ probe.pc = "done"
TypeIs(names) == probe.thresholdType \in names
TriggeredStatus == IF probe.thresholdStatus = "" THEN "critical" ELSE probe.thresholdStatus

\* The primary comparison and the band condition of the three-step rule.
RulePrimary ==
    \/ TypeIs({"greater", ""}) /\ probe.value > probe.threshold
    \/ TypeIs({"greater_equal"}) /\ probe.value >= probe.threshold
    \/ TypeIs({"less"}) /\ probe.value < probe.threshold
    \/ TypeIs({"less_equal"}) /\ probe.value <= probe.threshold
    \/ TypeIs({"equal"}) /\ probe.value = probe.threshold
RuleBand ==
    \/ TypeIs({"greater", "greater_equal", ""}) /\ probe.value * 10 >= probe.threshold * 9
    \/ TypeIs({"less", "less_equal"}) /\ probe.value * 10 <= probe.threshold * 9
    \/ TypeIs({"equal"}) /\ Abs(probe.value - probe.threshold) * 10 <= probe.threshold * 2

\* C14: for every value, threshold, comparison type among greater,
\* greater_equal, less, less_equal, equal and unset, and every triggered
\* status, the classifier returns the triggered status when the primary
\* comparison holds, otherwise warning when the band condition holds,
\* otherwise normal for triggered status critical and critical for any other.
C14_ThreeStepRule ==
    (Classified /\ ~TypeIs({"between"})) =>
        /\ RulePrimary => probe.result = TriggeredStatus
        /\ (~RulePrimary /\ RuleBand) => probe.result = "warning"
        /\ (~RulePrimary /\ ~RuleBand /\ TriggeredStatus = "critical") =>
              probe.result = "normal"
        /\ (~RulePrimary /\ ~RuleBand /\ TriggeredStatus # "critical") =>
              probe.result = "critical"

\* C14 witness: a value inside the band of an equal comparison, unset status.
C14_Witness ==
    /\ Classified
    /\ probe.thresholdType = "equal" /\ probe.thresholdStatus = ""
    /\ probe.threshold = 10 /\ probe.value = 12
    /\ probe.result = "warning"


\* A classification classify(v, T, "greater", status) with T positive.
GreaterOf(status) ==
    /\ probe.pc = "done"
    /\ probe.threshold > 0
    /\ probe.thresholdType = "greater"
    /\ probe.thresholdStatus = status

\* C15, as claimed: for every positive threshold T, classify(T, T, "greater",
\* "ok") returns "critical".
C15_EqualValueCritical ==
    (GreaterOf("ok") /\ probe.value = probe.threshold) => probe.result = "critical"

\* C15, amended: for every positive threshold T, classify(T, T, "greater",
\* "ok") returns "warning", the value lying in the warning band; the inversion
\* rule gives "critical" for the values below 0.9*T.
C15_EqualValueWarning ==
    /\ (GreaterOf("ok") /\ probe.value = probe.threshold) => probe.result = "warning"
    /\ (GreaterOf("ok") /\ Classified /\ 10 * probe.value < 9 * probe.threshold) =>
          probe.result = "critical"
    /\ (GreaterOf("ok") /\ ClassifiedTiny
          /\ probe.value < TinyTimes(probe.threshold, 9, 10, 1)) =>
          probe.result = "critical"

C15_Witness ==
    /\ GreaterOf("ok") /\ Classified
    /\ probe.threshold = 20 /\ probe.value = 20
    /\ probe.result = "warning"

\* The three sample points of a threshold: the float64 products 1.1*T, 0.95*T
\* and 0.5*T, for whole numbers where the product is a whole number, and for
\* counts of the smallest float64.
IsTimes(num, den, above) ==
    \/ Classified /\ den * probe.value = num * probe.threshold
    \/ ClassifiedTiny /\ probe.value = TinyTimes(probe.threshold, num, den, above)
SamplePoints ==
    /\ IsTimes(11, 10, 1) => probe.result = "critical"
    /\ IsTimes(95, 100, -1) => probe.result = "warning"
    /\ IsTimes(1, 2, 0) => probe.result = "normal"

\* C16, as claimed: for every positive threshold T, with comparison greater
\* and triggered status critical, classify(1.1*T, T) is critical,
\* classify(0.95*T, T) is warning and classify(0.5*T, T) is normal.
C16_SamplePoints ==
    GreaterOf("critical") => SamplePoints

\* C16, amended: the same for every threshold of at least five times the
\* smallest positive float64; for a smaller positive threshold 1.1*T is
\* rounded to T and classified warning, the other two points being as claimed.
C16_SamplePointsFromFive ==
    /\ (GreaterOf("critical") /\ (ClassifiedTiny => probe.threshold >= 5)) =>
          SamplePoints
    /\ (GreaterOf("critical") /\ ClassifiedTiny /\ probe.threshold < 5) =>
          /\ IsTimes(11, 10, 1) => probe.result = "warning"
          /\ (IsTimes(1, 2, 0) /\ ~IsTimes(11, 10, 1)) => probe.result = "normal"

C16_Witness ==
    /\ GreaterOf("critical") /\ ClassifiedTiny
    /\ probe.threshold = 5 /\ probe.value = 6
    /\ IsTimes(11, 10, 1)
    /\ probe.result = "critical"


\* The metric definitions in configuration order, each with its type name.
RECURSIVE DefinitionsFrom(_, _)
DefinitionsFrom(config, ti) ==
    IF ti > Len(config) THEN <<>>
    ELSE [mi \in 1 .. Len(config[ti].metrics) |->
             [type |-> config[ti].type, metric |-> config[ti].metrics[mi]]]
         \o DefinitionsFrom(config, ti + 1)
Definitions == DefinitionsFrom(col.config, 1)

Collected == col.pc = "done"
HasValue(sample) == sample.value.kind = "finite"
FiniteSamples(v) == SelectSeq(v, HasValue)
\* The sequence the result holds for the k-th definition, if it has the key.
HasKey(k) ==
    /\ Definitions[k].type \in DOMAIN col.groups
    /\ Definitions[k].metric.name \in DOMAIN col.groups[Definitions[k].type]
ResultOf(k) == col.groups[Definitions[k].type][Definitions[k].metric.name]

\* C17: whatever subset of the queries fails, CollectMetrics issues the query
\* of every metric definition once, in order, returns no error, skips the
\* metrics whose query failed and holds, for every query that returned a
\* vector, the samples accepted from that vector.
C17_FailedQuerySkipsOneMetric ==
    Collected =>
        /\ col.err = ""
        /\ Len(col.queries) = Len(Definitions)
        /\ \A k \in DOMAIN Definitions :
            /\ col.queries[k].query = Definitions[k].metric.query
            /\ col.queries[k].resp.kind = "error" => ~HasKey(k)
            /\ col.queries[k].resp.kind = "vector" =>
                 /\ HasKey(k)
                 /\ [i \in DOMAIN ResultOf(k) |-> ResultOf(k)[i].value]
                      = [i \in DOMAIN FiniteSamples(col.queries[k].resp.v) |->
                            FiniteSamples(col.queries[k].resp.v)[i].value]

C17_Witness ==
    /\ Collected
    /\ Len(col.queries) = 3
    /\ col.queries[1].resp.kind = "error"
    /\ col.queries[2].resp.kind = "vector"
    /\ col.queries[3].resp.kind = "vector"
    /\ Len(ResultOf(2)) = 1
    /\ Len(ResultOf(3)) = 2

\* C18: no sample held in a MetricGroup has a NaN or infinite value, and a
\* vector of one NaN sample and one valid sample, in either order, yields
\* exactly the valid sample.
C18_NoInvalidValues ==
    /\ col.pc # "none" =>
         \A t \in DOMAIN col.groups : \A n \in DOMAIN col.groups[t] :
            \A i \in DOMAIN col.groups[t][n] :
                ~IsNaN(col.groups[t][n][i].value) /\ ~IsInf(col.groups[t][n][i].value)
    /\ Collected =>
         \A k \in DOMAIN Definitions :
            LET v == col.queries[k].resp.v IN
            (/\ col.queries[k].resp.kind = "vector"
             /\ Len(v) = 2
             /\ \E i, j \in 1 .. 2 : IsNaN(v[i].value) /\ HasValue(v[j])) =>
                /\ Len(ResultOf(k)) = 1
                /\ \E j \in 1 .. 2 :
                    /\ HasValue(v[j])
                    /\ ResultOf(k)[1].value = v[j].value
                    /\ ResultOf(k)[1].labels = ResolveLabels(Definitions[k].metric, v[j])

C18_Witness ==
    /\ Collected
    /\ col.queries[1].resp.kind = "vector"
    /\ Len(col.queries[1].resp.v) = 2
    /\ IsNaN(col.queries[1].resp.v[1].value)
    /\ col.queries[1].resp.v[2].value = Finite(50)
    /\ Len(ResultOf(1)) = 1
    /\ ResultOf(1)[1].value = Finite(50)

\* C19: every sample held in a MetricGroup has as many resolved labels as its
\* metric definition has configured labels, exactly one for each configured
\* label name.
C19_LabelPerConfiguredName ==
    col.pc # "none" =>
        \A k \in DOMAIN Definitions :
            HasKey(k) =>
                \A i \in DOMAIN ResultOf(k) :
                    LET labels == ResultOf(k)[i].labels
                        configLabels == DOMAIN Definitions[k].metric.labels
                    IN  /\ Len(labels) = Cardinality(configLabels)
                        /\ \A l \in configLabels :
                            Cardinality({j \in DOMAIN labels : labels[j].name = l}) = 1

C19_Witness ==
    /\ Collected
    /\ HasKey(1)
    /\ Len(ResultOf(1)) = 2
    /\ Len(ResultOf(1)[1].labels) = 2
    /\ ResultOf(1)[1].labels[1].name = "job"
    /\ ResultOf(1)[2].labels[1].name = "instance"

\* C20: a sample with a finite value is accepted whether or not the backend
\* gave it every configured label: each label that is absent or empty is
\* resolved to "-", every other label to the backend's value, and the result
\* holds each finite sample of the vector.
C20_MissingLabelAccepted ==
    Collected =>
        \A k \in DOMAIN Definitions :
            col.queries[k].resp.kind = "vector" =>
                LET fin == FiniteSamples(col.queries[k].resp.v) IN
                /\ HasKey(k)
                /\ Len(ResultOf(k)) = Len(fin)
                /\ \A i \in DOMAIN fin : \A j \in DOMAIN ResultOf(k)[i].labels :
                    LET label == ResultOf(k)[i].labels[j]
                        given == /\ label.name \in DOMAIN fin[i].metric
                                 /\ fin[i].metric[label.name] # ""
                    IN  label.value = IF given THEN fin[i].metric[label.name] ELSE "-"

C20_Witness ==
    /\ Collected
    /\ Len(col.queries) = 3
    /\ HasKey(1) /\ HasKey(3)
    /\ Len(ResultOf(1)) = 2
    /\ \E j \in 1 .. 2 : /\ ResultOf(1)[1].labels[j].name = "instance"
                         /\ ResultOf(1)[1].labels[j].value = "-"
                         /\ "instance" \notin DOMAIN col.queries[1].resp.v[1].metric
    /\ Len(ResultOf(3)) = 1
    /\ ResultOf(3)[1].labels[1].value = "-"
    /\ col.queries[3].resp.v[1].metric["instance"] = ""


\* C21: in two report requests that run at the same time, each run queries
\* only the backend of its own datasource parameter, and the data it hands
\* to the report writer and the notifiers carries its own datasource.
C21_RunsDoNotInterfere ==
    \A r \in Requests :
        /\ reqs[r].queried \subseteq {ResolveDatasource(reqs[r].datasource)}
        /\ reqs[r].handed \subseteq {ResolveDatasource(reqs[r].datasource)}

C21_Witness ==
    /\ reqs["r1"].datasource = "prod"
    /\ reqs["r2"].datasource = "http://b:9090"
    /\ reqs["r1"].pc = "complete" /\ reqs["r1"].handed # {}
    /\ reqs["r2"].pc = "complete1" /\ reqs["r2"].queried # {}


\* The samples of a report data, as (type, name, index) triples.
SamplesIn(data) ==
    UNION {UNION {{<<t, n, i>> : i \in DOMAIN data[t][n]} : n \in DOMAIN data[t]} :
              t \in DOMAIN data}
WithStatus(data, t, statuses) ==
    {x \in SamplesIn(data) : x[1] = t /\ data[t][x[2]][x[3]].status \in statuses}

\* C22: for every report data, the summary of CalculateAlertSummary has
\* CriticalAlerts + WarningAlerts + NormalMetrics = TotalMetrics and
\* CriticalAlerts + WarningAlerts = TotalAlerts, TotalMetrics being the number
\* of samples in the data.
C22_SummaryConsistent ==
    (probe.fn = "summary" /\ probe.pc = "summary") =>
        /\ probe.summary.CriticalAlerts + probe.summary.WarningAlerts
             + probe.summary.NormalMetrics = probe.summary.TotalMetrics
        /\ probe.summary.CriticalAlerts + probe.summary.WarningAlerts
             = probe.summary.TotalAlerts
        /\ probe.summary.TotalMetrics = Cardinality(SamplesIn(probe.data))

C22_Witness ==
    /\ probe.fn = "summary" /\ probe.pc = "summary"
    /\ probe.summary.TotalMetrics = 2
    /\ probe.summary.TotalAlerts = 1
    /\ probe.summary.WarningAlerts = 1
    /\ probe.summary.NormalMetrics = 1
    /\ \E t \in DOMAIN probe.data : \E n \in DOMAIN probe.data[t] :
         \E i \in DOMAIN probe.data[t][n] : probe.data[t][n][i].status = "ok"
    /\ Cardinality(DOMAIN probe.data) = 3

\* C23: CalculateTypeAlertSummary returns one entry for each type name of the
\* data, in strictly ascending order of type name, each entry holding the
\* counts of the samples of its type.
C23_TypeSummarySorted ==
    (probe.fn = "summary" /\ probe.pc = "types") =>
        LET result == probe.types IN
        /\ Len(result) = Cardinality(DOMAIN probe.data)
        /\ {result[i].Type : i \in DOMAIN result} = DOMAIN probe.data
        /\ \A i \in 1 .. Len(result) - 1 :
              TypeRank(result[i].Type) < TypeRank(result[i + 1].Type)
        /\ \A i \in DOMAIN result :
            LET t == result[i].Type IN
            /\ result[i].CriticalCount
                 = Cardinality(WithStatus(probe.data, t, {"critical"}))
            /\ result[i].WarningCount
                 = Cardinality(WithStatus(probe.data, t, {"warning"}))
            /\ result[i].NormalCount
                 = Cardinality(WithStatus(probe.data, t, StatusStrings \ {"critical", "warning"}))
            /\ result[i].TotalMetrics
                 = Cardinality(WithStatus(probe.data, t, StatusStrings))
            /\ result[i].TotalMetrics
                 = result[i].CriticalCount + result[i].WarningCount + result[i].NormalCount

C23_Witness ==
    /\ probe.fn = "summary" /\ probe.pc = "types"
    /\ Len(probe.types) = 3
    /\ probe.types[1].Type = "basic" /\ probe.types[1].CriticalCount = 1
    /\ probe.types[2].Type = "k8s" /\ probe.types[2].TotalMetrics = 0
    /\ probe.types[3].Type = "memory" /\ probe.types[3].NormalCount = 1


\* The status the classifier gives the only sample of the k-th query.
OneSample(k) ==
    /\ col.queries[k].resp.kind = "vector"
    /\ Len(col.queries[k].resp.v) = 1
    /\ HasValue(col.queries[k].resp.v[1])
StatusOfSample(k) ==
    getStatus(col.queries[k].resp.v[1].value.n, Definitions[k].metric.threshold,
              Definitions[k].metric.thresholdType, Definitions[k].metric.thresholdStatus)

\* C24: with one metric type of two definitions whose queries return one
\* sample each, one classified normal and one classified critical, the data
\* of CollectMetrics holds both samples under that type and its summary is
\* TotalMetrics 2, CriticalAlerts 1, NormalMetrics 1, WarningAlerts 0.
C24_EndToEnd ==
    (/\ col.pc = "notified"
     /\ Len(col.config) = 1
     /\ Len(Definitions) = 2
     /\ OneSample(1) /\ OneSample(2)
     /\ {StatusOfSample(1), StatusOfSample(2)} = {"normal", "critical"}) =>
        /\ DOMAIN col.groups = {col.config[1].type}
        /\ DOMAIN col.groups[col.config[1].type]
             = {Definitions[1].metric.name, Definitions[2].metric.name}
        /\ \A k \in 1 .. 2 :
            /\ Len(ResultOf(k)) = 1
            /\ ResultOf(k)[1].value = col.queries[k].resp.v[1].value
            /\ ResultOf(k)[1].status = StatusOfSample(k)
        /\ probe.summary = [TotalMetrics |-> 2, CriticalAlerts |-> 1,
                            NormalMetrics |-> 1, WarningAlerts |-> 0,
                            TotalAlerts |-> 1]

C24_Witness ==
    /\ col.pc = "notified"
    /\ Len(col.config) = 1
    /\ OneSample(1) /\ OneSample(2)
    /\ StatusOfSample(1) = "critical" /\ StatusOfSample(2) = "normal"
    /\ probe.summary.TotalMetrics = 2


\* The queries of the first n metric definitions, in configuration order.
QueriesOf(n) == [k \in 1 .. n |-> Definitions[k].metric.query]
Running == col.pc \in {"query", "wait", "return", "done"}

\* C25: one call of CollectMetrics issues one query for each configured
\* metric definition, in configuration order, a failed query not being
\* repeated; it asks for another query exactly while definitions remain, the
\* query in flight being that of the next definition, and ends when every
\* query has returned.
C25_OneQueryPerDefinition ==
    /\ [](Running =>
            /\ Len(col.queries) <= Len(Definitions)
            /\ [k \in DOMAIN col.queries |-> col.queries[k].query]
                 = QueriesOf(Len(col.queries))
            /\ col.pc \in {"query", "wait"} <=> Len(col.queries) < Len(Definitions)
            /\ col.pc = "wait" =>
                  col.asked.query = Definitions[Len(col.queries) + 1].metric.query)
    /\ (col.pc \in {"query", "wait"}) ~> Collected

C25_Witness ==
    /\ Collected
    /\ Len(col.queries) = 3
    /\ col.queries[1].resp.kind = "error"
    /\ col.queries[2].resp.kind = "error"
    /\ col.queries[3].resp.kind = "scalar"
    /\ col.queries[1].client = NewClient(ConfigPrometheusURL)
    /\ col.queries[2].client = NewClient("http://b:9090")
    /\ col.datasource = ConfigPrometheusURL
    /\ col.collector.prometheusURL = "http://b:9090"

----------------------------------------------------------------------------
(* Effect and frame of the registry's mutators *)

\* A call made on the registry directly, on a task that was there.
Applied(op) ==
    /\ lastOp'.op = op
    /\ lastOp'.existed
    /\ lastOp'.by = ""

\* Step k is the first of the sequence with the given name.
FirstNamed(steps, k, stepName) ==
    /\ steps[k].name = stepName
    /\ \A j \in 1 .. (k - 1) : steps[j].name # stepName

\* Step k is the first of the sequence with the given name and still pending.
FirstPendingNamed(steps, k, stepName) ==
    /\ steps[k].name = stepName
    /\ steps[k].status = StatusPending
    /\ \A j \in 1 .. (k - 1) :
          ~(steps[j].name = stepName /\ steps[j].status = StatusPending)

\* The new log is the old one with one entry of the given type after it.
OneMoreLog(old, new, type) ==
    /\ Len(new.logs) = Len(old.logs) + 1
    /\ SubSeq(new.logs, 1, Len(old.logs)) = old.logs
    /\ new.logs[Len(new.logs)].type = type

\* C26: UpdateTaskProgress(id, percent, stepName) on an existing task sets the
\* progress to percent, turns the first pending step named stepName to running
\* (start time stamped) and leaves every other step as it was, a matching step
\* that is no longer pending included; status, error and report path stay, and
\* exactly one info entry is appended to the log, step matched or not.
C26_UpdateTaskProgressFrame ==
    [][Applied("UpdateTaskProgress")
       => LET id == lastOp'.id
              percent == lastOp'.args[1]
              stepName == lastOp'.args[2]
              old == tasks[id]
              new == tasks'[id]
          IN /\ new.progress = percent
             /\ Len(new.steps) = Len(old.steps)
             /\ \A k \in 1 .. Len(old.steps) :
                   IF FirstPendingNamed(old.steps, k, stepName)
                   THEN new.steps[k] = [old.steps[k] EXCEPT !.status = StatusRunning,
                                                            !.startTime = clock]
                   ELSE new.steps[k] = old.steps[k]
             /\ new.status = old.status
             /\ new.error = old.error
             /\ new.reportPath = old.reportPath
             /\ OneMoreLog(old, new, "info")]_vars

\* UpdateTaskProgress has just been called for a step that a first call had
\* set running a second earlier: the progress is the new one, the step still
\* has the start time of the first call, and the log has both calls.
C26_Witness ==
    /\ lastOp.op = "UpdateTaskProgress"
    /\ lastOp.existed
    /\ lastOp.args = <<90, StepCollectResources>>
    /\ tasks[lastOp.id].progress = 90
    /\ tasks[lastOp.id].steps[1].status = StatusRunning
    /\ tasks[lastOp.id].steps[1].startTime < clock
    /\ Len(tasks[lastOp.id].logs) = 3
    /\ tasks[lastOp.id].logs[2].type = "info"
    /\ tasks[lastOp.id].logs[3].type = "info"

\* C27: CompleteStep(id, stepName) and FailStep(id, stepName, msg) on an
\* existing task change the first step named stepName and no other: it becomes
\* completed (resp. failed, with msg as its error) whatever its status was, its
\* end time stamped; the task's status and progress stay, and exactly one
\* success (resp. error) entry is appended to the log, step found or not.
C27_StepEndFrame ==
    /\ [][Applied("CompleteStep")
          => LET id == lastOp'.id
                 stepName == lastOp'.args[1]
                 old == tasks[id]
                 new == tasks'[id]
             IN /\ Len(new.steps) = Len(old.steps)
                /\ \A k \in 1 .. Len(old.steps) :
                      IF FirstNamed(old.steps, k, stepName)
                      THEN new.steps[k] = [old.steps[k] EXCEPT !.status = StatusCompleted,
                                                               !.endTime = clock]
                      ELSE new.steps[k] = old.steps[k]
                /\ new.status = old.status
                /\ new.progress = old.progress
                /\ OneMoreLog(old, new, "success")]_vars
    /\ [][Applied("FailStep")
          => LET id == lastOp'.id
                 stepName == lastOp'.args[1]
                 msg == lastOp'.args[2]
                 old == tasks[id]
                 new == tasks'[id]
             IN /\ Len(new.steps) = Len(old.steps)
                /\ \A k \in 1 .. Len(old.steps) :
                      IF FirstNamed(old.steps, k, stepName)
                      THEN new.steps[k] = [old.steps[k] EXCEPT !.status = StatusFailed,
                                                               !.endTime = clock,
                                                               !.error = msg]
                      ELSE new.steps[k] = old.steps[k]
                /\ new.status = old.status
                /\ new.progress = old.progress
                /\ OneMoreLog(old, new, "error")]_vars

\* FailStep has just failed a step that CompleteStep had completed while it
\* was still pending: the step is failed with the message, the other three
\* steps are pending, and the log has the success entry and the error entry.
C27_Witness ==
    /\ lastOp.op = "FailStep"
    /\ lastOp.existed
    /\ lastOp.args = <<StepCollectResources, "boom">>
    /\ LET t == tasks[lastOp.id] IN
       /\ t.steps[1].status = StatusFailed
       /\ t.steps[1].error = "boom"
       /\ \A k \in 2 .. 4 : t.steps[k].status = StatusPending
       /\ Len(t.logs) = 3
       /\ t.logs[2].type = "success"
       /\ t.logs[3].type = "error"
       /\ t.status = StatusPending

\* C28: CompleteTask(id, outputRef) on an existing task leaves it completed at
\* progress 100, with outputRef as its report path, the end time stamped and
\* exactly one success entry appended to its log; its steps and its error
\* message are as before.
C28_CompleteTaskEffect ==
    [][Applied("CompleteTask")
       => LET id == lastOp'.id
              outputRef == lastOp'.args[1]
              old == tasks[id]
              new == tasks'[id]
          IN /\ new.status = StatusCompleted
             /\ new.progress = 100
             /\ new.reportPath = outputRef
             /\ new.endTime = clock
             /\ OneMoreLog(old, new, "success")
             /\ new.steps = old.steps
             /\ new.error = old.error]_vars

\* CompleteTask has just completed a task that FailTask had failed: the task
\* is completed with the report path, still carries the error message, and
\* all its steps are pending.
C28_Witness ==
    /\ lastOp.op = "CompleteTask"
    /\ lastOp.existed
    /\ lastOp.prev = StatusFailed
    /\ lastOp.args = <<"reports/b.html">>
    /\ LET t == tasks[lastOp.id] IN
       /\ t.status = StatusCompleted
       /\ t.progress = 100
       /\ t.reportPath = "reports/b.html"
       /\ t.error = "boom"
       /\ \A k \in 1 .. 4 : t.steps[k].status = StatusPending
       /\ t.logs[Len(t.logs)].type = "success"

\* C29: FailTask(id, errorMsg) on an existing task leaves it failed with
\* errorMsg as its error, the end time stamped and exactly one error entry
\* appended to its log; its progress, steps and report path are as before.
C29_FailTaskEffect ==
    [][Applied("FailTask")
       => LET id == lastOp'.id
              errorMsg == lastOp'.args[1]
              old == tasks[id]
              new == tasks'[id]
          IN /\ new.status = StatusFailed
             /\ new.error = errorMsg
             /\ new.endTime = clock
             /\ OneMoreLog(old, new, "error")
             /\ new.progress = old.progress
             /\ new.steps = old.steps
             /\ new.reportPath = old.reportPath]_vars

\* FailTask has just failed a task whose first step was running at progress
\* 25: progress and step are as they were.
C29_Witness ==
    /\ lastOp.op = "FailTask"
    /\ lastOp.existed
    /\ lastOp.args = <<"boom">>
    /\ LET t == tasks[lastOp.id] IN
       /\ t.status = StatusFailed
       /\ t.error = "boom"
       /\ t.progress = 25
       /\ t.steps[1].status = StatusRunning
       /\ t.reportPath = ""
       /\ t.logs[Len(t.logs)].type = "error"

----------------------------------------------------------------------------
(* The task log *)

LogTypes == {"info", "success", "error"}

\* CreateTask has, in this step, put a new task under id.
Recreated(id) == lastOp'.op = "CreateTask" /\ lastOp'.id = id

\* C30: the log of a task in the registry is append-only. Every entry has type
\* info, success or error, and the log has one entry for the creation and one
\* for each mutator call made on the task since; a step leaves the entries the
\* log had in place and unchanged, and adds one when it is a mutator call on
\* that task and none otherwise.
C30_LogAppendOnly ==
    /\ [](\A id \in DOMAIN tasks :
            /\ id \in DOMAIN applied
            /\ Len(tasks[id].logs) = 1 + applied[id]
            /\ \A k \in 1 .. Len(tasks[id].logs) : tasks[id].logs[k].type \in LogTypes)
    /\ [][\A id \in (DOMAIN tasks) \cap (DOMAIN tasks') :
            ~Recreated(id) =>
                /\ SubSeq(tasks'[id].logs, 1, Len(tasks[id].logs)) = tasks[id].logs
                /\ Len(tasks'[id].logs) =
                      Len(tasks[id].logs)
                        + (IF lastOp'.op \in Mutators /\ lastOp'.id = id THEN 1 ELSE 0)]_vars

\* A task has had two mutator calls, the second a FailStep for a name no step
\* has: its log has three entries, the creation's and one of each call, and
\* no step has changed.
C30_Witness ==
    /\ lastOp.op = "FailStep"
    /\ lastOp.existed
    /\ lastOp.args = <<"no such step", "boom">>
    /\ applied[lastOp.id] = 2
    /\ Len(tasks[lastOp.id].logs) = 3
    /\ tasks[lastOp.id].logs[1].type = "info"
    /\ tasks[lastOp.id].logs[2].type = "success"
    /\ tasks[lastOp.id].logs[3].type = "error"
    /\ tasks[lastOp.id].steps = InitialSteps

----------------------------------------------------------------------------
(* Reading the registry: GetAllTasks and GetRunningTasks *)

\* The sequences that hold every element of S once: the orders in which a
\* "for _, task := range tm.tasks" loop may visit the entries S.
Orderings(S) ==
    {o \in [1 .. Cardinality(S) -> S] :
        \A i, j \in 1 .. Cardinality(S) : i # j => o[i] # o[j]}

\* The slices GetAllTasks may return, each pointer written as its task's id.
GetAllTasks(ts) == Orderings(DOMAIN ts)

\* GetRunningTasks that keeps every task that has not finished.
GetRunningTasksNotFinished(ts) ==
    LET Keep(id) == ts[id].status \notin {StatusCompleted, StatusFailed}
    IN {SelectSeq(o, Keep) : o \in Orderings(DOMAIN ts)}

\* The slices GetRunningTasks may return: the loop visits the entries in some
\* order and appends those whose status is running.
GetRunningTasks(ts) ==
    LET Keep(id) == ts[id].status = StatusRunning
    IN {SelectSeq(o, Keep) : o \in Orderings(DOMAIN ts)}

\* The ids of the registries read.
ReadIDs == {TaskID(1, n) : n \in 1 .. (MaxTasks + 1)}

\* The registries read: any of the ids, each with a task in any status
\* (Status is an exported field of the task CreateTask returns).
Registries ==
    UNION {[ids -> TaskStatus] : ids \in SUBSET ReadIDs}

InitRead ==
    /\ \E reg \in Registries :
         tasks = [id \in DOMAIN reg |->
                    [NewTask(id, 1, "system inspection task", "") EXCEPT !.status = reg[id]]]
    /\ applied = [id \in DOMAIN tasks |-> 0]
    /\ nextID = MaxTasks + 1
    /\ clock = 1
    /\ reqs = [r \in Requests |-> IdleRequest]
    /\ lastOp = NoOp
    /\ mu = Unlocked
    /\ reading = {}
    /\ col = NoCollect
    /\ probe = NoProbe

CallGetAllTasks ==
    /\ \E result \in GetAllTasks(tasks) :
         probe' = [fn |-> "GetAllTasks", result |-> result]
    /\ lastOp' = [NoOp EXCEPT !.op = "GetAllTasks"]
    /\ UNCHANGED <<tasks, applied, nextID, clock, reqs, mu, reading, col>>

CallGetRunningTasks ==
    /\ \E result \in GetRunningTasks(tasks) :
         probe' = [fn |-> "GetRunningTasks", result |-> result]
    /\ lastOp' = [NoOp EXCEPT !.op = "GetRunningTasks"]
    /\ UNCHANGED <<tasks, applied, nextID, clock, reqs, mu, reading, col>>

NextRead ==
    \/ CallGetAllTasks
    \/ CallGetRunningTasks

SpecRead == InitRead /\ [][NextRead]_vars

\* The sequence holds each element of S once and nothing else.
EachOnce(seq, S) ==
    /\ \A id \in S : Cardinality({i \in DOMAIN seq : seq[i] = id}) = 1
    /\ \A i \in DOMAIN seq : seq[i] \in S

\* C31: GetRunningTasks returns the tasks of the registry whose status is
\* running at the call, each once, and no other task; GetAllTasks returns every
\* task of the registry once; neither call changes the registry.
C31_ReadsAreExact ==
    /\ [][lastOp'.op = "GetRunningTasks"
          => /\ EachOnce(probe'.result,
                         {id \in DOMAIN tasks : tasks[id].status = StatusRunning})
             /\ tasks' = tasks /\ nextID' = nextID]_vars
    /\ [][lastOp'.op = "GetAllTasks"
          => /\ EachOnce(probe'.result, DOMAIN tasks)
             /\ tasks' = tasks /\ nextID' = nextID]_vars

\* GetRunningTasks has returned the two running tasks of a registry that also
\* holds a pending task.
C31_Witness ==
    /\ lastOp.op = "GetRunningTasks"
    /\ Len(probe.result) = 2
    /\ Cardinality(DOMAIN tasks) = 3
    /\ \E id \in DOMAIN tasks : tasks[id].status = StatusPending
    /\ \A i \in 1 .. 2 : tasks[probe.result[i]].status = StatusRunning

----------------------------------------------------------------------------
(* Cancellation against the run *)

\* C32: once CancelTask has been applied to a task, no later step changes its
\* status away from failed or brings its progress to 100, however the cancel
\* request and the run that owns the task interleave.
C32_CancelledStaysFailed ==
    [][\A id \in (DOMAIN tasks) \cap (DOMAIN tasks') :
          tasks[id].cancelled
            => /\ tasks'[id].status = StatusFailed
               /\ tasks'[id].progress = 100 => tasks[id].progress = 100]_vars

\* C33: a task that a run has completed, no fault and no cancellation having
\* come in its way, has all four steps completed.
C33_CompletedTaskStepsCompleted ==
    \A r \in Requests :
        ( /\ reqs[r].pc = "done"
          /\ reqs[r].fault = ""
          /\ reqs[r].taskID \in DOMAIN tasks
          /\ tasks[reqs[r].taskID].status = StatusCompleted
          /\ ~tasks[reqs[r].taskID].cancelled )
        => \A k \in 1 .. Len(tasks[reqs[r].taskID].steps) :
              tasks[reqs[r].taskID].steps[k].status = StatusCompleted

----------------------------------------------------------------------------
(* The report writer in a request *)

\* C34: a request that has ended has invoked the report writer at most once,
\* and once if it was answered with the redirect; the path of the redirect and
\* of the notifications is the path CompleteTask recorded; and a request whose
\* run has called CompleteTask is answered with the redirect, never with a
\* report-generation failure.
C34_ReportWrittenOnce ==
    \A r \in Requests :
        reqs[r].pc = "done"
        => /\ reqs[r].writes <= 1
           /\ reqs[r].http = 303 => /\ reqs[r].writes = 1
                                    /\ reqs[r].reportPath = reqs[r].runPath
           /\ reqs[r].runPath # "" => reqs[r].http = 303

----------------------------------------------------------------------------
(* The registry's entries *)

\* Every call that changes the registry, before and after a day has passed.
NextEntries ==
    \/ DayJump
    \/ CallCreateTask
    \/ CallUpdateTaskProgress
    \/ CallCompleteStep
    \/ CallFailStep
    \/ CallCompleteTask
    \/ CallFailTask
    \/ CallCancelTask
    \/ CallCleanupOldTasks

SpecEntries == InitRun /\ [][NextEntries]_vars

\* C35: a mutator called with a task id leaves every other task exactly as it
\* was and the set of entries as it was; an entry appears only by CreateTask
\* (the one under the id it returns) and disappears only by CleanupOldTasks.
C35_OtherTasksUntouched ==
    [][/\ lastOp'.op \in Mutators
          => /\ DOMAIN tasks' = DOMAIN tasks
             /\ \A other \in (DOMAIN tasks) \ {lastOp'.id} : tasks'[other] = tasks[other]
       /\ (DOMAIN tasks') \ (DOMAIN tasks) # {}
          => /\ lastOp'.op = "CreateTask"
             /\ (DOMAIN tasks') \ (DOMAIN tasks) = {lastOp'.id}
       /\ (DOMAIN tasks) \ (DOMAIN tasks') # {}
          => lastOp'.op = "CleanupOldTasks"]_vars

\* CancelTask has just failed one of two tasks; the other is pending with the
\* one log entry of its creation.
C35_Witness ==
    /\ lastOp.op = "CancelTask"
    /\ lastOp.existed
    /\ Cardinality(DOMAIN tasks) = 2
    /\ \E id \in DOMAIN tasks : clock - tasks[id].startTime >= Day
    /\ tasks[lastOp.id].status = StatusFailed
    /\ \A other \in (DOMAIN tasks) \ {lastOp.id} :
          /\ tasks[other].status = StatusPending
          /\ ~tasks[other].cancelled
          /\ Len(tasks[other].logs) = 1

----------------------------------------------------------------------------
(* The shape of the collected data *)

\* C36: the ReportData CollectMetrics returns has one group for every
\* configured type and no other, also for a type all of whose queries failed;
\* in its group a metric's name is a key exactly when the metric's query
\* returned a vector, whether or not a sample of it was accepted; a failed
\* query and a scalar result leave no key.
C36_GroupsAndKeys ==
    Collected =>
        /\ DOMAIN col.groups = {col.config[t].type : t \in DOMAIN col.config}
        /\ \A k \in DOMAIN Definitions :
              HasKey(k) <=> col.queries[k].resp.kind = "vector"
        /\ \A t \in DOMAIN col.config :
              DOMAIN col.groups[col.config[t].type]
                \subseteq {col.config[t].metrics[m].name : m \in DOMAIN col.config[t].metrics}

\* A collection has returned in which the first query failed, the second
\* returned a scalar and the third a vector of one infinite sample: the first
\* group is there without a key, the second holds an empty sequence.
C36_Witness ==
    /\ Collected
    /\ Len(col.queries) = 3
    /\ col.queries[1].resp.kind = "error"
    /\ col.queries[2].resp.kind = "scalar"
    /\ col.queries[3].resp.kind = "vector"
    /\ Len(col.queries[3].resp.v) = 1
    /\ DOMAIN col.groups = {"basic", "memory"}
    /\ DOMAIN col.groups["basic"] = {}
    /\ DOMAIN col.groups["memory"] = {"mem"}
    /\ col.groups["memory"]["mem"] = <<>>

----------------------------------------------------------------------------
(* The classifier outside its five comparison types and outside its band *)

\* C37: for a comparison type that is not one of greater, greater_equal, less,
\* less_equal, equal and is not unset, the classifier returns, for every value
\* and threshold, normal when the triggered status is critical or unset and
\* critical otherwise: never the triggered status of a comparison that held,
\* never warning.
C37_UnknownTypeDefault ==
    (probe.fn \in {"getStatus", "getStatusTiny"} /\ probe.pc = "done"
        /\ ~TypeIs({"greater", "greater_equal", "less", "less_equal", "equal", ""}))
      => probe.result = IF TriggeredStatus = "critical" THEN "normal" ELSE "critical"

\* A value above the threshold classified with type between and triggered
\* status warning: the result is critical.
C37_Witness ==
    /\ Classified
    /\ probe.thresholdType = "between" /\ probe.thresholdStatus = "warning"
    /\ probe.threshold = 10 /\ probe.value = 12
    /\ probe.result = "critical"

\* A classification where 0.9*threshold (0.2*threshold for equal) lies beyond
\* the threshold, on the triggering side, and the primary comparison failed.
BandBeyondThreshold ==
    /\ probe.fn \in {"getStatus", "getStatusTiny"}
    /\ probe.pc = "done"
    /\ \/ TypeIs({"less", "less_equal"}) /\ probe.threshold > 0
       \/ TypeIs({"greater", "greater_equal"}) /\ probe.threshold < 0
       \/ TypeIs({"equal"}) /\ probe.threshold < 0
    /\ ~RulePrimary

\* The result of step 3 of the rule.
StepThreeDefault == IF TriggeredStatus = "critical" THEN "normal" ELSE "critical"

\* C38, as claimed: with type less or less_equal and a positive threshold,
\* greater or greater_equal and a negative threshold, or equal and a negative
\* threshold, every value that fails the primary comparison gets the default
\* of step 3, none is classified warning.
C38_EmptyBand ==
    BandBeyondThreshold => probe.result = StepThreeDefault

\* The thresholds so near zero that the float64 product 0.9*threshold is the
\* threshold itself: up to five times the smallest float64, either sign.
RoundsToItself == ClassifiedTiny /\ Abs(probe.threshold) <= 5

\* C38, amended: the same for every threshold of magnitude at least six times
\* the smallest positive float64. For a smaller one 0.9*threshold is rounded
\* to the threshold, and with type less (threshold positive) or greater
\* (threshold negative) the value equal to the threshold is classified
\* warning; every other value, and every value with less_equal, greater_equal
\* and equal, gets the default of step 3.
C38_EmptyBandFromSix ==
    /\ (BandBeyondThreshold /\ ~RoundsToItself) => probe.result = StepThreeDefault
    /\ (BandBeyondThreshold /\ RoundsToItself) =>
          IF TypeIs({"less", "greater"}) /\ probe.value = probe.threshold
          THEN probe.result = "warning"
          ELSE probe.result = StepThreeDefault

\* The value equal to six times the smallest float64 classified against that
\* threshold with type less: 0.9*threshold is five counts, the value lies
\* outside the band and gets the default.
C38_Witness ==
    /\ ClassifiedTiny
    /\ probe.thresholdType = "less" /\ probe.thresholdStatus = "critical"
    /\ probe.threshold = 6 /\ probe.value = 6
    /\ TinyTimes(probe.threshold, 9, 10, 1) = 5
    /\ probe.result = "normal"

====
